---- MODULE Spec2Model ----
(***************************************************************************)
(* Conversational pipeline of rag-enabled-ubiq-genie.                      *)
(*                                                                         *)
(* The worker processes are modelled from their Python sources:            *)
(*   - the RAG+LLM worker   (services/text_generation/rag_service.py),     *)
(*   - the TTS worker       (services/text_to_speech/text_to_speech_ibm.py)*)
(*   - the local STT client (services/speech_to_text/transcribe_local.py). *)
(* The pipeline orchestrator (per-peer session, audio turn buffer,         *)
(* wake-word gate, response router) is not among the Python sources; it is *)
(* modelled from the design document (spec.md, sections 3-5).              *)
(***************************************************************************)
EXTENDS Naturals, Sequences, FiniteSets

VARIABLES
    \* ---- orchestrator: per-peer session (spec.md section 3) ----
    state,              \* peer -> Idle | Buffering | AwaitingTranscript | ...
    audioBuffer,        \* peer -> frames since the last turn boundary
    silence,            \* peer -> ticks since the last frame (lastActivityTimestamp)
    pendingRequestId,   \* peer -> correlation id of the in-flight request, or NoId
    deadline,           \* peer -> ticks left before the pending request times out
    issued,             \* peer -> requests issued for it so far (makes the next id)
    turns,              \* turns started so far, over all peers
    pendingOrder,       \* peers with a generation or synthesis request pending,
                        \* in the order these requests were sent
    peerName,           \* peer -> the peerName its requests carry
    \* ---- what the properties read of a peer's current turn ----
    sink,               \* peer -> what reached its outbound sink since the turn began
    heard,              \* peer -> the transcript of the turn, once it has arrived
    lastFlush,          \* peer -> silence and frames at the turn's flush
    openReqs,           \* correlation ids sent out and neither answered nor timed out
    expired,            \* correlation ids whose deadline passed unanswered
    \* ---- RAG+LLM worker (rag_service.py) ----
    ragIn,              \* lines waiting on the worker's stdin
    ragOut,             \* lines the worker printed on stdout
    \* ---- TTS worker (text_to_speech_ibm.py) ----
    ttsIn,              \* text lines waiting on the worker's stdin
    ttsOut,             \* audio blocks the worker wrote on stdout
    \* ---- local STT client (transcribe_local.py) ----
    sttStdin,           \* audio chunks waiting on the client's stdin
    sttConnected,       \* LocalSTTClient.connected
    sttSent,            \* chunks sent to the STT server, in order
    sttLost,            \* chunks read from stdin and not sent
    \* ---- wake-word gate exercised on its own ----
    gateIn,             \* transcript handed to the gate
    gateOut,            \* the gate's answer for gateIn
    \* ---- process supervisor (spec.md 4.3) ----
    status,             \* role -> Starting | Ready | Terminated
    live,               \* role -> live processes of the role
    crashLog,           \* the crashes so far: role and requests failed by it
    restartCount,       \* role -> automatic restarts so far
    fatal,              \* roles for which a fatal pipeline error was surfaced
    \* ---- errors raised to the caller of an event handler ----
    raised,             \* the events whose handler raised
    \* ---- local AI server (local_ai_server.py) ----
    stt_connections,    \* client id -> connection registered for /stt/ws
    tts_connections,    \* client id -> connection registered for /tts/ws
    handler,            \* connection -> where its endpoint coroutine stands
    \* ---- peer lifecycle, for the properties only ----
    left,               \* correlation ids that were pending when their peer left
    \* ---- the TTS worker's stdout as a byte stream ----
    codecSent,          \* what the worker wrote: text lines and audio blocks
    codecWire,          \* the bytes on the pipe
    \* ---- RAGService.get_context_for_query (rag_service.py) ----
    vectorstore,        \* self.vectorstore: NoStore or the loaded store
    ctxCall,            \* the last call: what the search did, or <<>> before it
    context,            \* what the last call returned
    \* ---- RAGService.query_ollama (rag_service.py) ----
    llmCall,            \* the last call: its arguments and what the server did
    llmResult,          \* how the last call ended: value returned or error raised
    \* ---- IBM STT worker (transcribe_ibm.py) ----
    ibmStdin,           \* audio chunks waiting on the worker's stdin
    ibmRecognized,      \* chunks the recognizer's audio source has read
    ibmMonitored,       \* chunks process_audio_chunk has read
    ibmDone,             \* my_callback.done
    \* ---- transcriptions from the local AI server to the STT client ----
    sttServed,          \* the texts the server has transcribed and sent
    sttWs,              \* JSON messages on the websocket, not yet handled
    sttStdout,           \* the lines the client has written to its stdout
    \* ---- the worker processes and the end of their standard input ----
    stdinEof,           \* per worker: its stdin has been closed
    eofReads,           \* per worker: reads that found the end of input
    proc,                \* per worker: "running" or "exited"
    \* ---- RAGService construction in __main__ (rag_service.py) ----
    initCall,           \* what the document API did during the last start
    initResult,          \* how the start ended: serving with a store, or exit
    \* ---- the TTS worker's text cleaning (text_to_speech_ibm.py) ----
    ttsText,            \* the line on the worker's stdin
    ttsHandled,         \* main has read the line
    synthCalls          \* the texts the synthesizer was called with for it

orchVars == <<state, audioBuffer, silence, pendingRequestId, deadline, issued,
              turns, pendingOrder, peerName, sink, heard, lastFlush, openReqs,
              expired>>
ragVars  == <<ragIn, ragOut>>
ttsVars  == <<ttsIn, ttsOut>>
sttVars  == <<sttStdin, sttConnected, sttSent, sttLost>>
gateVars == <<gateIn, gateOut>>
supVars  == <<status, live, crashLog, restartCount, fatal>>
srvVars  == <<stt_connections, tts_connections, handler>>
codecVars == <<codecSent, codecWire>>
ctxVars  == <<vectorstore, ctxCall, context>>
llmVars  == <<llmCall, llmResult>>
ibmVars  == <<ibmStdin, ibmRecognized, ibmMonitored, ibmDone>>
relayVars == <<sttServed, sttWs, sttStdout>>
procVars == <<stdinEof, eofReads, proc>>
initVars == <<initCall, initResult>>
cleanVars == <<ttsText, ttsHandled, synthCalls>>
unitVars == <<codecVars, ctxVars, llmVars, ibmVars, relayVars, procVars, initVars, cleanVars>>
envVars  == <<supVars, raised, srvVars, left, unitVars>>
vars     == <<orchVars, ragVars, ttsVars, sttVars, gateVars, envVars>>

(***************************************************************************)
(* Text.  A transcript is a sequence of one-character strings.             *)
(***************************************************************************)
Str_hey      == <<"h", "e", "y">>
Str_Hey      == <<"H", "e", "y">>
Str_agent    == <<"a", "g", "e", "n", "t">>
Str_AGENT    == <<"A", "G", "E", "N", "T">>
Str_agentive == <<"a", "g", "e", "n", "t", "i", "v", "e">>
Str_hello    == <<"h", "e", "l", "l", "o">>
Str_world    == <<"w", "o", "r", "l", "d">>
Str_text     == <<"t", "e", "x", "t">>
Str_random   == <<"r", "a", "n", "d", "o", "m">>
Str_time     == <<"t", "i", "m", "e">>
Str_weather  == <<"w", "e", "a", "t", "h", "e", "r">>
Sp           == <<" ">>
Comma        == <<",">>

LowerLetters == {"a", "d", "e", "g", "h", "i", "l", "m", "n", "o", "r", "t",
                 "v", "w", "x", "y"}
UpperOf      == [c \in {"A", "E", "G", "H", "N", "T"} |->
                    CASE c = "A" -> "a" [] c = "E" -> "e" [] c = "G" -> "g"
                      [] c = "H" -> "h" [] c = "N" -> "n" [] c = "T" -> "t"]

\* Case-insensitive normalisation of one character and of a transcript.
LowerChar(c) == IF c \in DOMAIN UpperOf THEN UpperOf[c] ELSE c
Normalize(t) == [i \in 1..Len(t) |-> LowerChar(t[i])]

IsWordChar(c) == LowerChar(c) \in LowerLetters
IsBlank(t)    == \A i \in 1..Len(t) : t[i] = " "

\* The configured wake phrases, already normalised.
WakePhrases == {Str_hey \o Sp \o Str_agent, Str_hello \o Sp \o Str_agent}

\* phrase w stands in n at position i, as whole words: the characters next to
\* it, if any, are not word characters.
MatchesAt(n, w, i) ==
    /\ i + Len(w) - 1 <= Len(n)
    /\ \A k \in 1..Len(w) : n[i + k - 1] = w[k]
    /\ (i = 1 \/ ~IsWordChar(n[i - 1]))
    /\ (i + Len(w) - 1 = Len(n) \/ ~IsWordChar(n[i + Len(w)]))

RECURSIVE ScanFrom(_, _, _)
ScanFrom(n, w, i) ==
    IF i + Len(w) - 1 > Len(n) THEN FALSE
    ELSE IF MatchesAt(n, w, i) THEN TRUE
    ELSE ScanFrom(n, w, i + 1)

\* A mutant of isAddressed: plain substring search, no word boundary.
RECURSIVE SubstringFrom(_, _, _)
SubstringFrom(n, w, i) ==
    IF i + Len(w) - 1 > Len(n) THEN FALSE
    ELSE IF \A k \in 1..Len(w) : n[i + k - 1] = w[k] THEN TRUE
    ELSE SubstringFrom(n, w, i + 1)

IsAddressedSubstring(t) ==
    /\ ~IsBlank(t)
    /\ \E w \in WakePhrases : SubstringFrom(Normalize(t), w, 1)

\* isAddressed(transcript): spec.md 4.2.
IsAddressed(t) ==
    /\ ~IsBlank(t)
    /\ \E w \in WakePhrases : ScanFrom(Normalize(t), w, 1)

(***************************************************************************)
(* Sizes of the model.                                                     *)
(***************************************************************************)
MaxTurns == 2       \* turns started, over all peers

\* Thresholds the design leaves to configuration (spec.md 4.1, 5, 9), in ticks
\* and frames.
SilenceWindow  == 2
MaxTurnFrames  == 1
RequestTimeout == 1

Peers        == {"p1", "p2"}
NoName       == "-"                       \* a request without a peerName key
DisplayNames == {"Ann", NoName}
Frames       == {<<"pcm">>}               \* well-formed audio frames
EmptyFrame   == <<>>                      \* a zero-length frame
Transcripts  == {Str_hey \o Sp \o Str_agent \o Sp \o Str_hello, Str_weather}

\* A correlation id: the peer it was issued for and the number of the request
\* among that peer's requests.
NoId == <<>>
IdOf(p, n) == <<p, n>>
PeerOf(id) == id[1]

Min(a, b) == IF a < b THEN a ELSE b

\* The logical worker roles (spec.md 3, WorkerProcessHandle.name).
Roles == {"stt", "rag_llm", "tts"}

\* local_ai_server.py: the two endpoints, the connections (one per peer and
\* endpoint) and their client ids.  transcribe_local.py connects to /stt/ws
\* with the activity id as client id, so the peers of one activity share it;
\* a client of /tts/ws is given an id of its own.
Endpoints   == {"stt", "tts"}
ClientIds   == {"activity"} \cup Peers
NoConn      == <<>>
Connections == Peers \X Endpoints
ClientIdOf(c) == IF c[2] = "stt" THEN "activity" ELSE c[1]

(***************************************************************************)
(* RAG+LLM worker: rag_service.py, the loop of __main__ (lines 245-306).   *)
(* A line on stdin is a record: kind "blank" (empty or whitespace),        *)
(* "garbage" (not JSON) or "json"; a JSON message has or lacks the keys    *)
(* content and peerName.  id is the correlation id the orchestrator put    *)
(* into the message; the worker never reads it.                            *)
(***************************************************************************)
RagLine(id, name, text) ==
    [kind |-> "json", hasContent |-> TRUE, peerName |-> name, content |-> text,
     id |-> id]

\* message.get('peerName', 'User'), lines 284 and 292.
RagAddressee(line) == IF line.peerName = NoName THEN "User" ELSE line.peerName

\* The line printed for a request: "Agent -> <peerName>:: <response>" (284-286)
\* or, when query_ollama raises, the same prefix with the apology (292-293).
\* Neither carries the request's correlation id; req records, for the
\* properties only, which request the line answers.
RagReplyLine(line, llmOk) ==
    [name |-> RagAddressee(line),
     kind |-> IF llmOk THEN "answer" ELSE "apology",
     req  |-> line.id]

\* A mutant of the loop: the apology is printed after the answer as well.
RagPrintedTwice(line, llmOk) ==
    IF line.kind # "json" THEN <<>>
    ELSE IF ~line.hasContent THEN <<>>
    ELSE IF llmOk THEN <<RagReplyLine(line, TRUE), RagReplyLine(line, FALSE)>>
    ELSE <<RagReplyLine(line, FALSE)>>

\* What one pass of the loop prints for the line it read.
RagPrinted(line, llmOk) ==
    IF line.kind # "json" THEN <<>>               \* 251-252 skip, 296-298 log only
    ELSE IF ~line.hasContent THEN <<>>            \* 265 raises, 299-301 log only
    ELSE <<RagReplyLine(line, llmOk)>>

RagStep ==
    /\ status["rag_llm"] = "Ready"
    /\ ragIn # <<>>
    /\ \E llmOk \in BOOLEAN :
         /\ ragOut' = ragOut \o RagPrinted(Head(ragIn), llmOk)
         /\ ragIn' = Tail(ragIn)
    /\ UNCHANGED <<orchVars, ttsVars, sttVars, gateVars, envVars>>

(***************************************************************************)
(* TTS worker: text_to_speech_ibm.py, main (123-136) and transcribe_speech *)
(* (25-112).  The worker writes raw PCM on stdout: a block carries neither *)
(* a correlation id nor a peer; req records, for the properties only, the  *)
(* request whose text was synthesized.                                     *)
(***************************************************************************)
TtsLine(id, blank) == [id |-> id, blank |-> blank]

\* What transcribe_speech writes on stdout.buffer for one text line.
TtsWritten(line, synthOk, fallbackOk) ==
    IF line.blank THEN <<>>                                     \* 126, 129-130
    ELSE IF synthOk THEN <<[what |-> "speech", req |-> line.id]>>      \* 65-87
    ELSE IF fallbackOk THEN <<[what |-> "fallback", req |-> line.id]>> \* 99-106
    ELSE <<>>                                                   \* 109-110

TtsStep ==
    /\ status["tts"] = "Ready"
    /\ ttsIn # <<>>
    /\ \E synthOk \in BOOLEAN, fallbackOk \in BOOLEAN :
         /\ ttsOut' = ttsOut \o TtsWritten(Head(ttsIn), synthOk, fallbackOk)
         /\ ttsIn' = Tail(ttsIn)
    /\ UNCHANGED <<orchVars, ragVars, sttVars, gateVars, envVars>>

(***************************************************************************)
(* Orchestrator, from spec.md.  Session of a peer (3), audio turn buffer   *)
(* (4.1), wake-word gate (4.2), response router (4.5), state machine (4.6),*)
(* request deadlines (5).                                                  *)
(***************************************************************************)
Pending == {"AwaitingAnswer", "AwaitingSpeech"}

Without(seq, p) == SelectSeq(seq, LAMBDA x : x # p)

\* Frames the model lets a peer's buffer hold: one over the cap while a turn
\* is buffered, the cap while a request is pending.
BufferRoom(p) ==
    IF state[p] \in {"Idle", "Buffering"}
    THEN Len(audioBuffer[p]) <= MaxTurnFrames
    ELSE Len(audioBuffer[p]) < MaxTurnFrames

\* A mutant of pushFrame: a frame starts a turn whatever the peer's state.
StateAfterFrameAlwaysBuffering(st) == "Buffering"

\* A mutant of pushFrame: the first frame of a turn already ends it.
StateAfterFrameSkipsBuffering(st) ==
    IF st = "Idle" THEN "AwaitingTranscript" ELSE st

\* 4.6: Idle/Buffering --frame--> Buffering; in any other state the frame is
\* buffered and the state stays (4.1, edge case).
StateAfterFrame(st) == IF st \in {"Idle", "Buffering"} THEN "Buffering" ELSE st

\* A mutant of pushFrame: the frame is put in front of the buffered ones.
BufferedInFront(buf, f) == <<f>> \o buf

\* 4.1: pushFrame appends the frame to the peer's buffer.
Buffered(buf, f) == Append(buf, f)

\* pushFrame(peerId, frame, timestamp), 4.1.
PushFrame(p, f) ==
    /\ IF f = EmptyFrame
       THEN UNCHANGED orchVars                        \* dropped with a warning
       ELSE /\ state[p] # "Terminated"
            /\ BufferRoom(p)
            /\ state[p] = "Idle" => turns < MaxTurns
            /\ audioBuffer' = [audioBuffer EXCEPT ![p] = Buffered(@, f)]
            /\ silence' = [silence EXCEPT ![p] = 0]
            /\ state' = [state EXCEPT ![p] = StateAfterFrame(@)]
            /\ IF state[p] = "Idle"
               THEN /\ turns' = turns + 1
                    /\ sink' = [sink EXCEPT ![p] = <<>>]
                    /\ heard' = [heard EXCEPT ![p] = <<>>]
                    /\ lastFlush' = [lastFlush EXCEPT ![p] = <<>>]
               ELSE UNCHANGED <<turns, sink, heard, lastFlush>>
            /\ UNCHANGED <<pendingRequestId, deadline, issued, pendingOrder,
                           peerName, openReqs, expired>>
    /\ UNCHANGED <<ragVars, ttsVars, sttVars, gateVars, envVars>>

\* A mutant of the turn-end policy: the silence window is cut short by a tick.
TurnEndsEarly(p) ==
    /\ state[p] = "Buffering"
    /\ \/ silence[p] + 1 >= SilenceWindow
       \/ Len(audioBuffer[p]) > MaxTurnFrames

\* Turn-end policy, 4.1: silence for the whole window, or the buffer over the cap.
TurnEnds(p) ==
    /\ state[p] = "Buffering"
    /\ \/ silence[p] >= SilenceWindow
       \/ Len(audioBuffer[p]) > MaxTurnFrames

\* On turn-end the buffer is flushed as one payload to the stt worker.
TurnEnd(p) ==
    /\ TurnEnds(p)
    /\ LET id == IdOf(p, issued[p] + 1) IN
         /\ pendingRequestId' = [pendingRequestId EXCEPT ![p] = id]
         /\ openReqs' = openReqs \cup {id}
    /\ issued' = [issued EXCEPT ![p] = @ + 1]
    /\ lastFlush' = [lastFlush EXCEPT ![p] =
                        <<[silence |-> silence[p], frames |-> Len(audioBuffer[p]),
                           payload |-> audioBuffer[p]]>>]
    /\ state' = [state EXCEPT ![p] = "AwaitingTranscript"]
    /\ audioBuffer' = [audioBuffer EXCEPT ![p] = <<>>]
    /\ silence' = [silence EXCEPT ![p] = 0]
    /\ UNCHANGED <<deadline, turns, pendingOrder, peerName, sink, heard,
                   expired>>
    /\ UNCHANGED <<ragVars, ttsVars, sttVars, gateVars, envVars>>

\* A mutant of the gate's use: every transcript is taken as addressed.
GatePassesAlways(t) == TRUE

\* A mutant of the gate's use: no transcript is taken as addressed.
GatePassesNever(t) == FALSE

\* The gate as the orchestrator applies it to a completed turn, 4.2.
GatePasses(t) == IsAddressed(t)

\* The transcript of p's turn arrives from p's stt worker, 4.6.
OnTranscript(p, t) ==
    /\ state[p] = "AwaitingTranscript"
    /\ status["stt"] = "Ready"
    /\ heard' = [heard EXCEPT ![p] = t]
    /\ IF GatePasses(t)
       THEN LET id == IdOf(p, issued[p] + 1) IN
            /\ ragIn' = Append(ragIn, RagLine(id, peerName[p], t))
            /\ state' = [state EXCEPT ![p] = "AwaitingAnswer"]
            /\ pendingRequestId' = [pendingRequestId EXCEPT ![p] = id]
            /\ openReqs' = (openReqs \ {pendingRequestId[p]}) \cup {id}
            /\ deadline' = [deadline EXCEPT ![p] = RequestTimeout]
            /\ pendingOrder' = Append(pendingOrder, p)
            /\ issued' = [issued EXCEPT ![p] = @ + 1]
       ELSE /\ state' = [state EXCEPT ![p] = "Idle"]
            /\ pendingRequestId' = [pendingRequestId EXCEPT ![p] = NoId]
            /\ openReqs' = openReqs \ {pendingRequestId[p]}
            /\ UNCHANGED <<ragIn, deadline, pendingOrder, issued>>
    /\ UNCHANGED <<audioBuffer, silence, turns, peerName, sink, lastFlush,
                   expired>>
    /\ UNCHANGED <<ragOut, ttsVars, sttVars, gateVars, envVars>>

(***************************************************************************)
(* Response router, 4.5.  correlate() can only use what a worker's output  *)
(* carries.  The RAG+LLM worker's line carries the peerName of its request *)
(* ("User" when the request had none); the TTS worker's block carries      *)
(* nothing.  Both workers serve their requests one at a time and in order, *)
(* so among the pending requests a result may belong to, the router takes  *)
(* the one sent first.                                                     *)
(***************************************************************************)
EchoName(n) == IF n = NoName THEN "User" ELSE n

GenCandidates(r) ==
    {p \in Peers : state[p] = "AwaitingAnswer" /\ EchoName(peerName[p]) = r.name}

SynthCandidates == {p \in Peers : state[p] = "AwaitingSpeech"}

Oldest(S) ==
    LET first == CHOOSE i \in 1..Len(pendingOrder) :
                    /\ pendingOrder[i] \in S
                    /\ \A j \in 1..(i - 1) : pendingOrder[j] \notin S
    IN pendingOrder[first]

\* A mutant of the drop: the result goes to some peer's sink all the same.
DropResultLeaks ==
    /\ \E p \in Peers :
         sink' = [sink EXCEPT ![p] =
                     Append(@, [kind |-> "text", req |-> NoId, for |-> NoId])]
    /\ UNCHANGED <<state, audioBuffer, silence, pendingRequestId, deadline,
                   issued, turns, pendingOrder, peerName, heard, lastFlush,
                   openReqs, expired>>

\* UnknownCorrelation: the result is logged and dropped.
DropResult == UNCHANGED orchVars

\* A line of the RAG+LLM worker reaches the router.  An answer and the worker's
\* apology have the same form and are both taken as the generation result:
\* the text goes to the peer's sink and on to the tts worker.
OnRagReply ==
    /\ ragOut # <<>>
    /\ ragOut' = Tail(ragOut)
    /\ LET r == Head(ragOut)
           c == GenCandidates(r)
       IN IF c = {}
          THEN DropResult /\ UNCHANGED ttsIn
          ELSE LET p  == Oldest(c)
                   g  == pendingRequestId[p]
                   id == IdOf(p, issued[p] + 1)
               IN /\ ttsIn' = Append(ttsIn, TtsLine(id, FALSE))
                  /\ sink' = [sink EXCEPT ![p] =
                                 Append(@, [kind |-> "text", req |-> r.req,
                                            for |-> g])]
                  /\ state' = [state EXCEPT ![p] = "AwaitingSpeech"]
                  /\ pendingRequestId' = [pendingRequestId EXCEPT ![p] = id]
                  /\ openReqs' = (openReqs \ {g}) \cup {id}
                  /\ deadline' = [deadline EXCEPT ![p] = RequestTimeout]
                  /\ pendingOrder' = Append(Without(pendingOrder, p), p)
                  /\ issued' = [issued EXCEPT ![p] = @ + 1]
                  /\ UNCHANGED <<audioBuffer, silence, turns, peerName, heard,
                                 lastFlush, expired>>
    /\ UNCHANGED <<ragIn, ttsOut, sttVars, gateVars, envVars>>

\* A block of the TTS worker reaches the router.
OnTtsAudio ==
    /\ ttsOut # <<>>
    /\ ttsOut' = Tail(ttsOut)
    /\ LET a == Head(ttsOut)
           c == SynthCandidates
       IN IF c = {}
          THEN DropResult
          ELSE LET p == Oldest(c)
                   g == pendingRequestId[p]
               IN /\ sink' = [sink EXCEPT ![p] =
                                 Append(@, [kind |-> "audio", req |-> a.req,
                                            for |-> g])]
                  /\ state' = [state EXCEPT ![p] = "Idle"]
                  /\ pendingRequestId' = [pendingRequestId EXCEPT ![p] = NoId]
                  /\ openReqs' = openReqs \ {g}
                  /\ deadline' = [deadline EXCEPT ![p] = 0]
                  /\ pendingOrder' = Without(pendingOrder, p)
                  /\ UNCHANGED <<audioBuffer, silence, issued, turns, peerName,
                                 heard, lastFlush, expired>>
    /\ UNCHANGED <<ragVars, ttsIn, sttVars, gateVars, envVars>>

\* A mutant of the fallback: the failure is not shown to the peer.
WithoutFallback(s, id, why) == s

\* 7, user-visible behaviour: the sink after the fallback notification for
\* the failed request id.
WithFallback(s, id, why) ==
    Append(s, [kind |-> "fallback", req |-> id, for |-> id, why |-> why])

\* The deadline of p's pending request has passed, 5: the orchestrator
\* resolves it as an error, tells the peer and clears the pending state.
Expired(p) == state[p] \in Pending /\ deadline[p] = 0

\* A mutant of the expiry: the deadline is started again and the peer waits on.
TimeoutWaitsOn(p) ==
    /\ Expired(p)
    /\ deadline' = [deadline EXCEPT ![p] = RequestTimeout]
    /\ UNCHANGED <<state, audioBuffer, silence, pendingRequestId, issued, turns,
                   pendingOrder, peerName, sink, heard, lastFlush, openReqs,
                   expired>>
    /\ UNCHANGED <<ragVars, ttsVars, sttVars, gateVars, envVars>>

Timeout(p) ==
    /\ Expired(p)
    /\ sink' = [sink EXCEPT ![p] =
                   WithFallback(@, pendingRequestId[p], "timeout")]
    /\ state' = [state EXCEPT ![p] = "Idle"]
    /\ pendingRequestId' = [pendingRequestId EXCEPT ![p] = NoId]
    /\ openReqs' = openReqs \ {pendingRequestId[p]}
    /\ expired' = expired \cup {pendingRequestId[p]}
    /\ pendingOrder' = Without(pendingOrder, p)
    /\ UNCHANGED <<audioBuffer, silence, deadline, issued, turns, peerName,
                   heard, lastFlush>>
    /\ UNCHANGED <<ragVars, ttsVars, sttVars, gateVars, envVars>>

\* One tick of the timers (silence window, request deadline).  A timer that
\* has run out is served before more time passes.
Tick ==
    /\ \A p \in Peers : ~TurnEnds(p) /\ ~Expired(p)
    /\ \E p \in Peers : state[p] \in Pending \cup {"Buffering"}
    /\ silence' = [p \in Peers |->
                      IF state[p] = "Buffering"
                      THEN Min(silence[p] + 1, SilenceWindow) ELSE silence[p]]
    /\ deadline' = [p \in Peers |->
                       IF state[p] \in Pending THEN deadline[p] - 1 ELSE deadline[p]]
    /\ UNCHANGED <<state, audioBuffer, pendingRequestId, issued, turns,
                   pendingOrder, peerName, sink, heard, lastFlush, openReqs,
                   expired>>
    /\ UNCHANGED <<ragVars, ttsVars, sttVars, gateVars, envVars>>

(***************************************************************************)
(* Process supervisor (spec.md 4.3), worker failures (7) and the peer      *)
(* lifecycle (3, 4.6).                                                     *)
(***************************************************************************)
MaxCrashes == 1

\* The state in which a peer waits for the worker of a role.
WaitsFor(r) ==
    CASE r = "stt"     -> "AwaitingTranscript"
      [] r = "rag_llm" -> "AwaitingAnswer"
      [] r = "tts"     -> "AwaitingSpeech"

\* A mutant of the crash handling: the requests in flight stay pending.
CrashVictimsNone(r) == {}

\* 4.3: the peers whose in-flight request is with the worker that died.
CrashVictims(r) == {p \in Peers : state[p] = WaitsFor(r)}

\* The turns of the peers in V end in a failure: fallback notification to the
\* peer's sink, pending state cleared, back to Idle (7).
FailTurns(V, why) ==
    /\ sink' = [p \in Peers |->
                   IF p \in V THEN WithFallback(sink[p], pendingRequestId[p], why)
                   ELSE sink[p]]
    /\ state' = [p \in Peers |-> IF p \in V THEN "Idle" ELSE state[p]]
    /\ pendingRequestId' = [p \in Peers |->
                               IF p \in V THEN NoId ELSE pendingRequestId[p]]
    /\ openReqs' = openReqs \ {pendingRequestId[p] : p \in V}
    /\ pendingOrder' = SelectSeq(pendingOrder, LAMBDA x : x \notin V)
    /\ UNCHANGED <<audioBuffer, silence, deadline, issued, turns, peerName,
                   heard, lastFlush, expired>>

\* The worker process of role r dies: its pipes are gone with it, and the
\* requests in flight to it are resolved as WorkerUnavailable.
Crash(r) ==
    /\ status[r] = "Ready"
    /\ Len(crashLog) < MaxCrashes
    /\ status' = [status EXCEPT ![r] = "Terminated"]
    /\ live' = [live EXCEPT ![r] = @ - 1]
    /\ crashLog' = Append(crashLog,
                          [role |-> r,
                           failed |-> {pendingRequestId[p] : p \in CrashVictims(r)}])
    /\ FailTurns(CrashVictims(r), "unavailable")
    /\ ragIn'  = IF r = "rag_llm" THEN <<>> ELSE ragIn
    /\ ragOut' = IF r = "rag_llm" THEN <<>> ELSE ragOut
    /\ ttsIn'  = IF r = "tts" THEN <<>> ELSE ttsIn
    /\ ttsOut' = IF r = "tts" THEN <<>> ELSE ttsOut
    /\ UNCHANGED <<sttVars, gateVars, raised, srvVars, left, restartCount,
                   fatal, unitVars>>

\* A mutant of ensureRunning: a process is started whatever the status.
NeedsStartAlways(st) == TRUE

\* ensureRunning starts a worker when it is absent or terminated.
NeedsStart(st) == st = "Terminated"

\* ensureRunning(name), 4.3.
EnsureRunning(r) ==
    /\ IF NeedsStart(status[r]) /\ r \notin fatal
       THEN /\ live[r] < 2
            /\ status' = [status EXCEPT ![r] = "Starting"]
            /\ live' = [live EXCEPT ![r] = @ + 1]
       ELSE UNCHANGED <<status, live>>
    /\ UNCHANGED <<crashLog, raised, srvVars, left, restartCount, fatal,
                   unitVars>>
    /\ UNCHANGED <<orchVars, ragVars, ttsVars, sttVars, gateVars>>

\* The started process reports ready.
Started(r) ==
    /\ status[r] = "Starting"
    /\ status' = [status EXCEPT ![r] = "Ready"]
    /\ UNCHANGED <<live, crashLog, raised, srvVars, left, restartCount, fatal,
                   unitVars>>
    /\ UNCHANGED <<orchVars, ragVars, ttsVars, sttVars, gateVars>>

\* The configured retry bound of the restart policy (4.3).
MaxRetries == 2

\* Health model, 4.3: the worker's output stream closes unexpectedly, or it
\* does not acknowledge a heartbeat within the timeout.  The worker is
\* Degraded, its process is given up and the requests in flight to it are
\* resolved as WorkerUnavailable.
Degrade(r) ==
    /\ status[r] = "Ready"
    /\ status' = [status EXCEPT ![r] = "Degraded"]
    /\ live' = [live EXCEPT ![r] = @ - 1]
    /\ FailTurns(CrashVictims(r), "unavailable")
    /\ ragIn'  = IF r = "rag_llm" THEN <<>> ELSE ragIn
    /\ ragOut' = IF r = "rag_llm" THEN <<>> ELSE ragOut
    /\ ttsIn'  = IF r = "tts" THEN <<>> ELSE ttsIn
    /\ ttsOut' = IF r = "tts" THEN <<>> ELSE ttsOut
    /\ UNCHANGED <<crashLog, restartCount, fatal>>
    /\ UNCHANGED <<sttVars, gateVars, raised, srvVars, left, unitVars>>

\* A mutant of the restart policy: the retry bound is not looked at.
MayRestartAlways(n) == TRUE

\* The restart policy allows one more automatic restart after n of them.
MayRestart(n) == n < MaxRetries

\* Degraded triggers an automatic restart while the policy allows one.
Restart(r) ==
    /\ status[r] = "Degraded"
    /\ MayRestart(restartCount[r])
    /\ status' = [status EXCEPT ![r] = "Starting"]
    /\ live' = [live EXCEPT ![r] = @ + 1]
    /\ restartCount' = [restartCount EXCEPT ![r] = @ + 1]
    /\ UNCHANGED <<crashLog, fatal, raised, srvVars, left, unitVars>>
    /\ UNCHANGED <<orchVars, ragVars, ttsVars, sttVars, gateVars>>

\* The retries are used up: the worker is marked Terminated for good and the
\* fatal pipeline error of its role is surfaced.
GiveUp(r) ==
    /\ status[r] = "Degraded"
    /\ ~MayRestart(restartCount[r])
    /\ status' = [status EXCEPT ![r] = "Terminated"]
    /\ fatal' = fatal \cup {r}
    /\ UNCHANGED <<live, crashLog, restartCount, raised, srvVars, left,
                   unitVars>>
    /\ UNCHANGED <<orchVars, ragVars, ttsVars, sttVars, gateVars>>

\* The stt worker reports a TranscriptionFailure for p's turn (6, 7).
OnSttError(p) ==
    /\ state[p] = "AwaitingTranscript"
    /\ status["stt"] = "Ready"
    /\ FailTurns({p}, "transcription")
    /\ UNCHANGED <<ragVars, ttsVars, sttVars, gateVars, envVars>>

\* onPeerLeave(peerId): the session is destroyed (3, 4.6); results of its
\* requests that arrive later find no pending request.
PeerLeave(p) ==
    /\ state[p] # "Terminated"
    /\ state' = [state EXCEPT ![p] = "Terminated"]
    /\ audioBuffer' = [audioBuffer EXCEPT ![p] = <<>>]
    /\ silence' = [silence EXCEPT ![p] = 0]
    /\ deadline' = [deadline EXCEPT ![p] = 0]
    /\ pendingRequestId' = [pendingRequestId EXCEPT ![p] = NoId]
    /\ openReqs' = openReqs \ {pendingRequestId[p]}
    /\ pendingOrder' = Without(pendingOrder, p)
    /\ left' = left \cup ({pendingRequestId[p]} \ {NoId})
    /\ UNCHANGED <<issued, turns, peerName, sink, heard, lastFlush, expired>>
    /\ UNCHANGED <<ragVars, ttsVars, sttVars, gateVars, supVars, raised,
                   srvVars, unitVars>>

\* onPeerJoin(peerId) for a peer that left (3, lifecycle): a new session is
\* created for the same peer id.
PeerJoin(p) ==
    /\ state[p] = "Terminated"
    /\ state' = [state EXCEPT ![p] = "Idle"]
    /\ sink' = [sink EXCEPT ![p] = <<>>]
    /\ heard' = [heard EXCEPT ![p] = <<>>]
    /\ lastFlush' = [lastFlush EXCEPT ![p] = <<>>]
    /\ UNCHANGED <<audioBuffer, silence, pendingRequestId, deadline, issued,
                   turns, pendingOrder, peerName, openReqs, expired>>
    /\ UNCHANGED <<ragVars, ttsVars, sttVars, gateVars, envVars>>

(***************************************************************************)
(* The agent's event handlers on invalid input, as the repository's        *)
(* end-to-end test fixes them (tests/e2e/test_conversational_agent.py,     *)
(* test_error_handling): the handler of an audio event whose data is not   *)
(* audio raises, and so does the handler of a line of the stt stream that  *)
(* cannot be parsed.                                                       *)
(***************************************************************************)
\* pytest.raises(Exception) around the emit: the error reaches the caller.
RaisedBy(ev) == raised \cup {ev}

\* mediaReceiver.emit('audio', peer, None).
OnAudioInvalid(p) ==
    /\ state[p] # "Terminated"
    /\ raised' = RaisedBy("audio")
    /\ UNCHANGED <<orchVars, ragVars, ttsVars, sttVars, gateVars, supVars,
                   srvVars, left, unitVars>>

\* speech2text.emit('data', b'invalid json', 'default').
OnSttUnparsable ==
    /\ status["stt"] = "Ready"
    /\ raised' = RaisedBy("stt_data")
    /\ UNCHANGED <<orchVars, ragVars, ttsVars, sttVars, gateVars, supVars,
                   srvVars, left, unitVars>>

(***************************************************************************)
(* Local speech-to-text client, src/.../transcribe_local.py.  Audio chunks *)
(* written to its stdin are forwarded over a websocket which is opened     *)
(* once and never reopened.                                                *)
(***************************************************************************)
MaxChunks == 4

SttWritten == Len(sttStdin) + Len(sttSent) + Len(sttLost)

\* The orchestrator writes the next audio chunk to the client's stdin.
SttWrite ==
    /\ SttWritten < MaxChunks
    /\ sttStdin' = Append(sttStdin, SttWritten + 1)
    /\ UNCHANGED <<sttConnected, sttSent, sttLost>>
    /\ UNCHANGED <<orchVars, ragVars, ttsVars, gateVars, envVars>>

\* A mutant of the forwarding: a chunk that cannot be sent stays queued.
SttForwardKeeps(chunk, sendOk) ==
    IF sttConnected /\ sendOk
    THEN /\ sttStdin' = Tail(sttStdin)
         /\ sttSent' = Append(sttSent, chunk)
         /\ UNCHANGED sttLost
    ELSE UNCHANGED <<sttStdin, sttSent, sttLost>>

\* A mutant of the forwarding: the chunk is sent whatever the socket's state.
SttForwardUnguarded(chunk, sendOk) ==
    /\ sttStdin' = Tail(sttStdin)
    /\ IF sendOk
       THEN sttSent' = Append(sttSent, chunk) /\ UNCHANGED sttLost
       ELSE sttLost' = Append(sttLost, chunk) /\ UNCHANGED sttSent

\* main(), one iteration: the chunk is sent when the socket is connected and
\* the send succeeds; otherwise it is logged and gone.
SttForward(chunk, sendOk) ==
    /\ sttStdin' = Tail(sttStdin)
    /\ IF sttConnected /\ sendOk
       THEN sttSent' = Append(sttSent, chunk) /\ UNCHANGED sttLost
       ELSE sttLost' = Append(sttLost, chunk) /\ UNCHANGED sttSent

SttLoop ==
    /\ sttStdin # <<>>
    /\ \E sendOk \in BOOLEAN : SttForward(Head(sttStdin), sendOk)
    /\ UNCHANGED sttConnected
    /\ UNCHANGED <<orchVars, ragVars, ttsVars, gateVars, envVars>>

\* on_error / on_close: the socket is marked disconnected.
SttOnClose ==
    /\ sttConnected
    /\ sttConnected' = FALSE
    /\ UNCHANGED <<sttStdin, sttSent, sttLost>>
    /\ UNCHANGED <<orchVars, ragVars, ttsVars, gateVars, envVars>>

(***************************************************************************)
(* Transcriptions on their way back.  websocket_stt_endpoint of            *)
(* local_ai_server.py transcribes each audio message and sends a JSON      *)
(* object (19-27); LocalSTTClient.on_message of transcribe_local.py        *)
(* handles it (35-46).  A JSON object is a record, and data.get(k, d) is   *)
(* the field k when the record has it and d otherwise.                     *)
(***************************************************************************)
ServedTexts == {"", "hello", "hey agent"}

JsonNone == "None"

Get(data, key, default) ==
    IF key \in DOMAIN data THEN data[key] ELSE default

\* await websocket.send_json({"text": text})
ServerJson(text) == [text |-> text]

\* websocket_stt_endpoint, one iteration of the loop: an audio message is
\* transcribed, to a text that can be empty, and the result is sent.
ServerTranscribe ==
    /\ Len(sttServed) < MaxChunks
    /\ \E text \in ServedTexts :
         /\ sttServed' = Append(sttServed, text)
         /\ sttWs' = Append(sttWs, ServerJson(text))
    /\ UNCHANGED sttStdout
    /\ UNCHANGED <<orchVars, ragVars, ttsVars, sttVars, gateVars, supVars,
                   raised, srvVars, left, codecVars, ctxVars, llmVars,
                   ibmVars, procVars, initVars, cleanVars>>

\* What on_message writes to stdout for one parsed message.
OnMessageLines(data) ==
    IF Get(data, "type", JsonNone) = "transcription"
    THEN LET transcription == Get(data, "text", "")
         IN IF transcription # "" THEN << <<">", transcription>> >> ELSE <<>>
    ELSE <<>>

\* LocalSTTClient.on_message for the next message on the websocket.
ClientOnMessage ==
    /\ sttWs # <<>>
    /\ sttStdout' = sttStdout \o OnMessageLines(Head(sttWs))
    /\ sttWs' = Tail(sttWs)
    /\ UNCHANGED sttServed
    /\ UNCHANGED <<orchVars, ragVars, ttsVars, sttVars, gateVars, supVars,
                   raised, srvVars, left, codecVars, ctxVars, llmVars,
                   ibmVars, procVars, initVars, cleanVars>>

(***************************************************************************)
(* Local AI server, local_ai_server.py: the websocket endpoints /stt/ws and *)
(* /tts/ws.  Each keeps a module-level registry of its active connections, *)
(* keyed by the client id of the URL.  A connection c is <<peer, endpoint>>.*)
(***************************************************************************)
EndpointOf(c) == c[2]

\* await websocket.accept(); stt_connections[client_id] = websocket
\* (lines 14-15 and 35-36): the entry of the client id is overwritten.
WebsocketAccept(c) ==
    /\ handler[c] = "idle"
    /\ handler' = [handler EXCEPT ![c] = "open"]
    /\ IF EndpointOf(c) = "stt"
       THEN /\ stt_connections' = [stt_connections EXCEPT ![ClientIdOf(c)] = c]
            /\ UNCHANGED tts_connections
       ELSE /\ tts_connections' = [tts_connections EXCEPT ![ClientIdOf(c)] = c]
            /\ UNCHANGED stt_connections
    /\ UNCHANGED <<orchVars, ragVars, ttsVars, sttVars, gateVars, supVars,
                   raised, left, unitVars>>

\* What `del registry[client_id]` leaves of the registry (lines 31 and 52).
Deleted(registry, cid) == [registry EXCEPT ![cid] = NoConn]

\* The loop of the endpoint ends with an exception (a disconnect, a failure
\* of the model), which is printed (28-29, 49-50); the finally clause deletes
\* the entry of the client id (30-31, 51-52) and raises KeyError out of the
\* endpoint when there is none.
WebsocketFail(c) ==
    /\ handler[c] = "open"
    /\ LET registry == IF EndpointOf(c) = "stt" THEN stt_connections
                       ELSE tts_connections
           cid == ClientIdOf(c)
       IN /\ handler' = [handler EXCEPT ![c] =
                            IF registry[cid] = NoConn THEN "keyerror"
                            ELSE "closed"]
          /\ IF EndpointOf(c) = "stt"
             THEN /\ stt_connections' = Deleted(stt_connections, cid)
                  /\ UNCHANGED tts_connections
             ELSE /\ tts_connections' = Deleted(tts_connections, cid)
                  /\ UNCHANGED stt_connections
    /\ UNCHANGED <<orchVars, ragVars, ttsVars, sttVars, gateVars, supVars,
                   raised, left, unitVars>>

(***************************************************************************)
(* Line protocol codec (spec.md 4.4) and the byte stream the TTS worker    *)
(* really writes (text_to_speech_ibm.py).  A byte is a number in 0..255; a *)
(* message is a text line or an audio block, with its bytes.               *)
(***************************************************************************)
MaxWire == 2        \* messages written to the stream

NL       == 10      \* the newline that ends a line
Sentinel == 0       \* the byte that leads a binary audio payload

TextBytes  == {1, 2}          \* bytes of a text line: neither NL nor Sentinel
AudioBytes == {0, 1, 10}      \* PCM bytes: any value, NL and Sentinel included

BytesUpTo2(B) == {<<a>> : a \in B} \cup {<<a, b>> : a \in B, b \in B}

TextLine(bs)   == [kind |-> "text", bytes |-> bs]
AudioBlock(bs) == [kind |-> "audio", bytes |-> bs]

CodecMessages == {TextLine(bs) : bs \in BytesUpTo2(TextBytes)}
                     \cup {AudioBlock(bs) : bs \in BytesUpTo2(AudioBytes)}

\* 4-byte little-endian length prefix.
LE4(n) == <<n % 256, (n \div 256) % 256, (n \div 65536) % 256,
            (n \div 16777216) % 256>>
FromLE4(b) == b[1] + 256 * b[2] + 65536 * b[3] + 16777216 * b[4]

\* 4.4: a text message is one newline-terminated line; an audio payload is
\* the sentinel, the length prefix and exactly that many raw bytes.
CodecEncode(m) ==
    IF m.kind = "audio"
    THEN <<Sentinel>> \o LE4(Len(m.bytes)) \o m.bytes
    ELSE m.bytes \o <<NL>>

RECURSIVE CodecEncodeAll(_)
CodecEncodeAll(ms) ==
    IF ms = <<>> THEN <<>> ELSE CodecEncode(Head(ms)) \o CodecEncodeAll(Tail(ms))

\* Position of the first NL of s, or 0.
FirstNL(s) ==
    IF \E i \in 1..Len(s) : s[i] = NL
    THEN CHOOSE i \in 1..Len(s) : s[i] = NL /\ \A j \in 1..(i - 1) : s[j] # NL
    ELSE 0

\* 4.4, the reader: the complete messages of a byte stream.  A leading
\* sentinel announces a length-prefixed audio payload, anything else a line
\* up to the next newline; bytes of an incomplete message stay unread.
RECURSIVE CodecDecode(_)
CodecDecode(s) ==
    IF s = <<>> THEN <<>>
    ELSE IF Head(s) = Sentinel
    THEN IF Len(s) < 5 \/ Len(s) < 5 + FromLE4(SubSeq(s, 2, 5)) THEN <<>>
         ELSE LET n == FromLE4(SubSeq(s, 2, 5))
              IN <<AudioBlock(SubSeq(s, 6, 5 + n))>>
                     \o CodecDecode(SubSeq(s, 6 + n, Len(s)))
    ELSE IF FirstNL(s) = 0 THEN <<>>
         ELSE <<TextLine(SubSeq(s, 1, FirstNL(s) - 1))>>
                  \o CodecDecode(SubSeq(s, FirstNL(s) + 1, Len(s)))

\* text_to_speech_ibm.py: what the worker puts on its stdout for one output.
\* print() writes the text and a newline (28, 43, 82, 83, 127);
\* sys.stdout.buffer.write(result) writes the PCM bytes as they are, with
\* neither sentinel nor length (86-87, 105-106).
TtsEmitted(m) == IF m.kind = "audio" THEN m.bytes ELSE m.bytes \o <<NL>>

\* The worker writes a log line or the audio of a synthesis to its stdout.
TtsWrite ==
    /\ Len(codecSent) < MaxWire
    /\ \E m \in CodecMessages :
         /\ codecSent' = Append(codecSent, m)
         /\ codecWire' = codecWire \o TtsEmitted(m)
    /\ UNCHANGED <<orchVars, ragVars, ttsVars, sttVars, gateVars, supVars,
                   raised, srvVars, left, ctxVars, llmVars, ibmVars, relayVars, procVars, initVars, cleanVars>>

(***************************************************************************)
(* RAGService.get_context_for_query, rag_service.py 180-191.  A text is a  *)
(* sequence of characters; the vectorstore is an external collaborator     *)
(* whose similarity_search returns up to k documents in rank order or      *)
(* raises.                                                                 *)
(***************************************************************************)
TopK == 3                                   \* k: int = 3

NoStore     == "None"                       \* self.vectorstore = None
LoadedStore == "FAISS"
Stores      == {NoStore, LoadedStore}

PageContents == {<<"a">>, <<"b">>, <<"a", "b">>, <<>>, <<"a", "\n", "b">>}

RECURSIVE DocLists(_)
DocLists(n) ==
    IF n = 0 THEN {<<>>}
    ELSE DocLists(n - 1)
             \cup {Append(ds, d) : ds \in {x \in DocLists(n - 1) : Len(x) = n - 1},
                                   d \in PageContents}

\* A mutant of the join: the contents are put together without a separator.
RECURSIVE JoinPlain(_)
JoinPlain(docs) ==
    IF docs = <<>> THEN <<>> ELSE Head(docs) \o JoinPlain(Tail(docs))

\* "\n".join([doc.page_content for doc in docs]), line 188.
RECURSIVE JoinNewline(_)
JoinNewline(docs) ==
    IF docs = <<>> THEN <<>>
    ELSE IF Len(docs) = 1 THEN Head(docs)
    ELSE Head(docs) \o <<"\n">> \o JoinNewline(Tail(docs))

\* What the method returns: "" without a vectorstore (182-184), "" when the
\* search or the join raises (189-191), the joined contents otherwise.
ContextFor(store, searchOk, docs) ==
    IF store = NoStore THEN <<>>
    ELSE IF ~searchOk THEN <<>>
    ELSE JoinNewline(docs)

\* One call of get_context_for_query(query).
GetContextForQuery ==
    /\ \E searchOk \in BOOLEAN, docs \in DocLists(TopK) :
         /\ vectorstore # NoStore /\ ~searchOk => docs = <<>>
         /\ vectorstore = NoStore => searchOk /\ docs = <<>>
         /\ ctxCall' = <<[ok |-> searchOk, docs |-> docs]>>
         /\ context' = ContextFor(vectorstore, searchOk, docs)
    /\ UNCHANGED vectorstore
    /\ UNCHANGED <<orchVars, ragVars, ttsVars, sttVars, gateVars, supVars,
                   raised, srvVars, left, codecVars, llmVars, ibmVars, relayVars, procVars, initVars, cleanVars>>

(***************************************************************************)
(* RAGService.query_ollama, rag_service.py 123-178.  The LLM server is an  *)
(* external collaborator: the POST raises (connection error, timeout, any  *)
(* other error) or returns a response with a status and a body.            *)
(***************************************************************************)
Prompts       == {"q1", "q2"}
Contexts      == {"", "ctx"}
SystemPrompts == {"", "sys"}
Answers       == {"Test LLM response", ""}

\* The body of a response: not JSON, a JSON array, or a JSON object with or
\* without the key 'response'.  has says whether `'response' in body` holds.
Bodies ==
    {[kind |-> "notjson", has |-> FALSE, response |-> ""],
     [kind |-> "array", has |-> FALSE, response |-> ""],
     [kind |-> "array", has |-> TRUE, response |-> ""],
     [kind |-> "object", has |-> FALSE, response |-> ""]}
    \cup {[kind |-> "object", has |-> TRUE, response |-> a] : a \in Answers}

ServerOutcomes ==
    {[net |-> n, ok |-> FALSE, body |-> [kind |-> "notjson", has |-> FALSE,
                                         response |-> ""]] :
        n \in {"ConnectionError", "Timeout", "OtherError"}}
    \cup {[net |-> "response", ok |-> k, body |-> b] : k \in BOOLEAN, b \in Bodies}

\* Lines 126-129: the prompt that is posted.
FullPrompt(prompt, ctx, system) ==
    IF ctx # "" THEN <<system, "Context:", ctx, "Question:", prompt>>
    ELSE <<system, "Question:", prompt>>

Returned(v) == [kind |-> "returned", value |-> <<v>>]
Raised(msg) == [kind |-> "raised", value |-> <<>>, msg |-> msg]

\* A mutant of the status check: the status of the response is not looked at.
StatusOkAlways(o) == TRUE

\* `response.ok`, line 148.
StatusOk(o) == o.ok

\* The body of the try block, 138-162: the value returned or the class of
\* the exception raised in it.
TryPost(o) ==
    IF o.net # "response" THEN Raised(o.net)                    \* 139-146
    ELSE IF ~StatusOk(o) THEN Raised("Exception")               \* 148-151
    ELSE IF o.body.kind = "notjson" THEN Raised("ValueError")   \* 154
    ELSE IF ~o.body.has THEN Raised("Exception")                \* 155-158
    ELSE IF o.body.kind # "object" THEN Raised("TypeError")     \* 160
    ELSE Returned(o.body.response)                              \* 160-162

\* The except clauses, 164-178: each of them raises Exception with a message
\* of its own.
QueryOllama(o) ==
    LET t == TryPost(o) IN
    IF t.kind = "returned" THEN t
    ELSE IF t.msg = "ConnectionError" THEN Raised("Failed to connect to LLM server")
    ELSE IF t.msg = "Timeout" THEN Raised("LLM request timed out")
    ELSE Raised("Error querying LLM server")

\* One call of query_ollama(prompt, context, system_prompt).
QueryOllamaCall ==
    /\ \E q \in Prompts, c \in Contexts, sp \in SystemPrompts, o \in ServerOutcomes :
         /\ llmCall' = <<[posted |-> FullPrompt(q, c, sp), server |-> o]>>
         /\ llmResult' = <<QueryOllama(o)>>
    /\ UNCHANGED <<orchVars, ragVars, ttsVars, sttVars, gateVars, supVars,
                   raised, srvVars, left, codecVars, ctxVars, ibmVars, relayVars, procVars, initVars, cleanVars>>

(***************************************************************************)
(* RAGService.__init__ and _initialize_vectorstore, rag_service.py 22-121, *)
(* as run by __main__ (231-311).  The document API and the index builder   *)
(* are external: the listing request raises, or answers with a status and  *)
(* a list; each document loads to its text or fails to load; building the  *)
(* index succeeds or raises.                                               *)
(***************************************************************************)
MaxDocs == 3

LoadFails == "LoadFails"

\* What load_document gives for one listed document: its text, which can be
\* empty, or a failure (118-121).
LoadOutcomes == {LoadFails, "", "alpha", "beta"}

RECURSIVE LoadLists(_)
LoadLists(n) ==
    IF n = 0 THEN {<<>>}
    ELSE LoadLists(n - 1)
             \cup {Append(ds, d) : ds \in {x \in LoadLists(n - 1) : Len(x) = n - 1},
                                   d \in LoadOutcomes}

\* What the listing request does: it raises, or answers with a status.
Listings ==
    {[net |-> "ConnectionError", status |-> 0, docs |-> <<>>]}
    \cup {[net |-> "response", status |-> st, docs |-> <<>>] : st \in {404, 500}}
    \cup {[net |-> "response", status |-> 200, docs |-> ds] : ds \in LoadLists(MaxDocs)}

\* fetch_documents, 89-114.
FetchDocuments(listing) ==
    IF listing.net # "response" THEN Raised(listing.net)
    ELSE IF listing.status # 200 THEN Raised("Failed to fetch documents")
    ELSE Returned(listing.docs)

\* A mutant of the loading loop: a document that fails to load is kept.
LoadedDocumentsAll(docs) == docs

\* The loop of 61-68: the texts of the documents that loaded, in order.
LoadedDocuments(docs) == SelectSeq(docs, LAMBDA d : d # LoadFails)

\* _initialize_vectorstore, 47-87: the store it returns or the exception it
\* raises again.
InitializeVectorstore(listing, buildOk) ==
    LET fetched == FetchDocuments(listing) IN
    IF fetched.kind = "raised" THEN fetched                      \* 51, 84-87
    ELSE LET docs_metadata == fetched.value[1]
             documents == LoadedDocuments(docs_metadata)
         IN IF docs_metadata = <<>>
            THEN Returned([store |-> NoStore, texts |-> <<>>])   \* 55-58
            ELSE IF documents = <<>>
            THEN Returned([store |-> NoStore, texts |-> <<>>])   \* 70-73
            ELSE IF ~buildOk THEN Raised("BuildError")           \* 81, 84-87
            ELSE Returned([store |-> LoadedStore, texts |-> documents])

\* __main__, 231-311: the service is constructed and the loop is entered, or
\* the exception is logged and the process exits with status 1.
MainStart(listing, buildOk) ==
    LET made == InitializeVectorstore(listing, buildOk) IN
    IF made.kind = "raised"
    THEN [kind |-> "exit", code |-> 1, store |-> NoStore, texts |-> <<>>]
    ELSE [kind |-> "serving", code |-> 0, store |-> made.value[1].store,
          texts |-> made.value[1].texts]

\* One start of the RAG worker.
RagStart ==
    /\ \E listing \in Listings, buildOk \in BOOLEAN :
         /\ initCall' = <<[listing |-> listing, buildOk |-> buildOk]>>
         /\ initResult' = <<MainStart(listing, buildOk)>>
    /\ UNCHANGED <<orchVars, ragVars, ttsVars, sttVars, gateVars, supVars,
                   raised, srvVars, left, codecVars, ctxVars, llmVars,
                   ibmVars, relayVars, procVars, cleanVars>>

(***************************************************************************)
(* The TTS worker's handling of one input line, text_to_speech_ibm.py:     *)
(* main (123-130) and the cleaning in transcribe_speech (25-69).  A line   *)
(* is a sequence of pieces, each a space, a word or one of the tokens the  *)
(* cleaning looks for; a piece is never split.                             *)
(***************************************************************************)
MaxTtsLen == 5

TtsPieces == {" ", "Agent", "->", "::", "[IBM]", "hi"}

AgentArrow == <<"Agent", " ", "->">>
ColonColon == <<"::">>

\* metadata_markers, line 38, in the order of the list.
Markers == << <<"[confidence:">>, <<"[DEBUG">>, <<"[IBM]">>, AgentArrow, <<"->">> >>

DefaultText  == <<"I'm here to assist you.">>
HelloThere   == <<"Hello there.">>
FallbackText == <<"I'm sorry, there was an error processing that.">>

\* The position of the first occurrence of m in s, 0 when there is none.
RECURSIVE FindFrom(_, _, _)
FindFrom(s, m, i) ==
    IF i + Len(m) - 1 > Len(s) THEN 0
    ELSE IF \A k \in 1..Len(m) : s[i + k - 1] = m[k] THEN i
    ELSE FindFrom(s, m, i + 1)

\* `m in s`
Contains(s, m) == FindFrom(s, m, 1) # 0

\* s.strip()
RECURSIVE Strip(_)
Strip(s) ==
    IF s = <<>> THEN <<>>
    ELSE IF Head(s) = " " THEN Strip(Tail(s))
    ELSE IF s[Len(s)] = " " THEN Strip(SubSeq(s, 1, Len(s) - 1))
    ELSE s

\* s.split(m)[0] and s.split(m, 1)[1], for m in s.
SplitHead(s, m) == SubSeq(s, 1, FindFrom(s, m, 1) - 1)
SplitRest(s, m) == SubSeq(s, FindFrom(s, m, 1) + Len(m), Len(s))

\* A mutant of the marker removal: the text is left as it is.
CutAtMarkerNot(s, m) == s

\* Lines 40-41: if marker in clean_text: clean_text.split(marker)[0].strip()
CutAtMarker(s, m) == IF Contains(s, m) THEN Strip(SplitHead(s, m)) ELSE s

\* The loop of 39-41 over the markers from the i-th on.
RECURSIVE CutAtMarkers(_, _)
CutAtMarkers(s, i) ==
    IF i > Len(Markers) THEN s
    ELSE CutAtMarkers(CutAtMarker(s, Markers[i]), i + 1)

\* Lines 31-41: clean_text.
CleanText(text) ==
    LET stripped == Strip(text)
        unprefixed == IF Contains(stripped, AgentArrow)
                         /\ Contains(stripped, ColonColon)
                      THEN Strip(SplitRest(stripped, ColonColon))
                      ELSE stripped
    IN CutAtMarkers(unprefixed, 1)

\* Lines 46-47 and 62: the text the synthesizer is called with.
SynthesizeText(text) ==
    LET clean == CleanText(text)
        clean_text == IF clean = <<>> \/ Strip(clean) = <<>>
                      THEN DefaultText ELSE clean
    IN IF Strip(clean_text) # <<>> THEN Strip(clean_text) ELSE HelloThere

\* What can happen in the try block: it runs through, the synthesizer
\* raises, or something before the call raises.
TryOutcomes == {"done", "synthesize raises", "raises before"}

\* main 125-130 and transcribe_speech: the calls of synthesizer.synthesize
\* for one line, in order.
SynthCallsFor(text, outcome) ==
    IF Strip(text) = <<>> THEN <<>>                                 \* 126, 130
    ELSE IF outcome = "done" THEN <<SynthesizeText(text)>>          \* 65-69
    ELSE IF outcome = "synthesize raises"
    THEN <<SynthesizeText(text), FallbackText>>                     \* 90-103
    ELSE <<FallbackText>>

\* The parent writes one more piece of the line.
TtsLineGrows ==
    /\ ~ttsHandled
    /\ Len(ttsText) < MaxTtsLen
    /\ \E piece \in TtsPieces : ttsText' = Append(ttsText, piece)
    /\ UNCHANGED <<ttsHandled, synthCalls>>
    /\ UNCHANGED <<orchVars, ragVars, ttsVars, sttVars, gateVars, supVars,
                   raised, srvVars, left, codecVars, ctxVars, llmVars,
                   ibmVars, relayVars, procVars, initVars>>

\* main reads the line with input() and handles it.
TtsMainInput ==
    /\ ~ttsHandled
    /\ ttsHandled' = TRUE
    /\ \E outcome \in TryOutcomes :
         synthCalls' = SynthCallsFor(ttsText, outcome)
    /\ UNCHANGED ttsText
    /\ UNCHANGED <<orchVars, ragVars, ttsVars, sttVars, gateVars, supVars,
                   raised, srvVars, left, codecVars, ctxVars, llmVars,
                   ibmVars, relayVars, procVars, initVars>>

(***************************************************************************)
(* IBM STT worker, transcribe_ibm.py, recognize_from_stdin.  The           *)
(* recognizer is given AudioSource(sys.stdin.buffer) (138, 198-206), and   *)
(* the loop that follows reads the same sys.stdin.buffer in                *)
(* process_audio_chunk (153-195, 211-217) for as long as the callback has  *)
(* not set done.  A chunk is what one read returns.                        *)
(***************************************************************************)
IbmWritten == Len(ibmStdin) + Len(ibmRecognized) + Len(ibmMonitored)

\* The orchestrator writes the next audio chunk to the worker's stdin.
IbmWrite ==
    /\ IbmWritten < MaxChunks
    /\ ibmStdin' = Append(ibmStdin, IbmWritten + 1)
    /\ UNCHANGED <<ibmRecognized, ibmMonitored, ibmDone>>
    /\ UNCHANGED <<orchVars, ragVars, ttsVars, sttVars, gateVars, supVars,
                   raised, srvVars, left, codecVars, ctxVars, llmVars, relayVars, procVars, initVars, cleanVars>>

\* The recognizer's audio source reads from stdin and sends the chunk on.
IbmSourceRead ==
    /\ ~ibmDone
    /\ ibmStdin # <<>>
    /\ ibmRecognized' = Append(ibmRecognized, Head(ibmStdin))
    /\ ibmStdin' = Tail(ibmStdin)
    /\ UNCHANGED <<ibmMonitored, ibmDone>>
    /\ UNCHANGED <<orchVars, ragVars, ttsVars, sttVars, gateVars, supVars,
                   raised, srvVars, left, codecVars, ctxVars, llmVars, relayVars, procVars, initVars, cleanVars>>

\* process_audio_chunk: chunk = sys.stdin.buffer.read(1024); the chunk is
\* written to the audio log and measured, and goes nowhere else.
IbmMonitorRead ==
    /\ ~ibmDone
    /\ ibmStdin # <<>>
    /\ ibmMonitored' = Append(ibmMonitored, Head(ibmStdin))
    /\ ibmStdin' = Tail(ibmStdin)
    /\ UNCHANGED <<ibmRecognized, ibmDone>>
    /\ UNCHANGED <<orchVars, ragVars, ttsVars, sttVars, gateVars, supVars,
                   raised, srvVars, left, codecVars, ctxVars, llmVars, relayVars, procVars, initVars, cleanVars>>

\* on_error / on_close of the callback: done is set and the loop ends.
IbmOnClose ==
    /\ ~ibmDone
    /\ ibmDone' = TRUE
    /\ UNCHANGED <<ibmStdin, ibmRecognized, ibmMonitored>>
    /\ UNCHANGED <<orchVars, ragVars, ttsVars, sttVars, gateVars, supVars,
                   raised, srvVars, left, codecVars, ctxVars, llmVars, relayVars, procVars, initVars, cleanVars>>

(***************************************************************************)
(* The main loops of the worker processes at the end of their standard     *)
(* input.  Each action is one pass of the loop whose read finds the end of *)
(* input; while stdin is open the read waits for data, which the sections  *)
(* above handle.                                                           *)
(***************************************************************************)
Workers == {"rag_llm", "tts", "stt_ibm", "stt_local"}

MaxEofReads == 2

\* The parent closes the worker's stdin.
StdinClose(w) ==
    /\ ~stdinEof[w]
    /\ stdinEof' = [stdinEof EXCEPT ![w] = TRUE]
    /\ UNCHANGED <<eofReads, proc>>
    /\ UNCHANGED <<orchVars, ragVars, ttsVars, sttVars, gateVars, supVars,
                   raised, srvVars, left, codecVars, ctxVars, llmVars,
                   ibmVars, relayVars, initVars, cleanVars>>

\* The pass is over and the loop starts again.
LoopsAgain(w) ==
    /\ eofReads' = [eofReads EXCEPT ![w] = @ + 1]
    /\ UNCHANGED proc

\* The pass leaves the loop and the process ends.
Exits(w) ==
    /\ eofReads' = [eofReads EXCEPT ![w] = @ + 1]
    /\ proc' = [proc EXCEPT ![w] = "exited"]

AtEof(w) ==
    /\ proc[w] = "running"
    /\ stdinEof[w]
    /\ eofReads[w] < MaxEofReads

\* rag_service.py 245-252: readline() returns b"" and
\* `if not line or line.isspace(): continue`.
RagReadlineEof ==
    /\ AtEof("rag_llm")
    /\ LoopsAgain("rag_llm")
    /\ UNCHANGED stdinEof
    /\ UNCHANGED <<orchVars, ragVars, ttsVars, sttVars, gateVars, supVars,
                   raised, srvVars, left, codecVars, ctxVars, llmVars,
                   ibmVars, relayVars, initVars, cleanVars>>

\* text_to_speech_ibm.py 123-136: input() raises EOFError, which
\* `except Exception` catches and prints inside `while True`.
TtsInputEof ==
    /\ AtEof("tts")
    /\ LoopsAgain("tts")
    /\ UNCHANGED stdinEof
    /\ UNCHANGED <<orchVars, ragVars, ttsVars, sttVars, gateVars, supVars,
                   raised, srvVars, left, codecVars, ctxVars, llmVars,
                   ibmVars, relayVars, initVars, cleanVars>>

\* transcribe_ibm.py 211-217: process_audio_chunk reads b"" and returns
\* False (158-160); the loop sleeps and goes on while done is not set.
IbmLoopEof ==
    /\ AtEof("stt_ibm")
    /\ ~ibmDone
    /\ LoopsAgain("stt_ibm")
    /\ UNCHANGED stdinEof
    /\ UNCHANGED <<orchVars, ragVars, ttsVars, sttVars, gateVars, supVars,
                   raised, srvVars, left, codecVars, ctxVars, llmVars,
                   ibmVars, relayVars, initVars, cleanVars>>

\* transcribe_ibm.py 211, 233-248: `while not my_callback.done` ends once the
\* callback has set done, and main returns.
IbmLoopDone ==
    /\ proc["stt_ibm"] = "running"
    /\ ibmDone
    /\ proc' = [proc EXCEPT !["stt_ibm"] = "exited"]
    /\ UNCHANGED <<stdinEof, eofReads>>
    /\ UNCHANGED <<orchVars, ragVars, ttsVars, sttVars, gateVars, supVars,
                   raised, srvVars, left, codecVars, ctxVars, llmVars,
                   ibmVars, relayVars, initVars, cleanVars>>

\* transcribe_local.py 114-119, 143-146: read(4800) returns b"" and
\* `if not audio_data: break`; the socket is closed and main returns.
LocalReadEof ==
    /\ AtEof("stt_local")
    /\ Exits("stt_local")
    /\ UNCHANGED stdinEof
    /\ UNCHANGED <<orchVars, ragVars, ttsVars, sttVars, gateVars, supVars,
                   raised, srvVars, left, codecVars, ctxVars, llmVars,
                   ibmVars, relayVars, initVars, cleanVars>>

(***************************************************************************)
(* Inputs of the wake-word gate: texts composed of a few words and         *)
(* separators, and the examples of the repository's tests and of spec.md.  *)
(***************************************************************************)
MaxGateWords == 3

GateWords == {Str_hey, Str_Hey, Str_agent, Str_AGENT, Str_agentive, Str_hello,
              Str_world, <<>>}

GateSeps == {Sp, Comma \o Sp, <<>>}

RECURSIVE Composed(_)
Composed(n) ==
    IF n = 0 THEN {<<>>}
    ELSE {w \o sep \o rest : w \in GateWords, sep \in GateSeps,
                             rest \in Composed(n - 1)}

Ex_HeyAgentTime == Str_hey \o Sp \o Str_agent \o Comma \o Sp \o Str_time
Ex_HeyAgentive == Str_hey \o Sp \o Str_agentive
Ex_HelloWorld == Str_hello \o Sp \o Str_world
Ex_Random == Str_random
Ex_Whitespace == Sp \o Sp

GateExamples == {Ex_HeyAgentTime, Ex_HeyAgentive, Ex_HelloWorld, Ex_Random,
                 Ex_Whitespace}

GateInputs == Composed(MaxGateWords) \cup GateExamples \cup WakePhrases

\* isAddressed(text) applied to one input.
GateCheck ==
    /\ gateOut = "unasked"
    /\ \E t \in GateInputs :
         /\ gateIn' = t
         /\ gateOut' = IF IsAddressed(t) THEN "addressed" ELSE "ignored"
    /\ UNCHANGED <<orchVars, ragVars, ttsVars, sttVars, envVars>>

(***************************************************************************)
(* Specifications.                                                         *)
(***************************************************************************)
InitWorkers ==
    /\ ragIn = <<>> /\ ragOut = <<>>
    /\ ttsIn = <<>> /\ ttsOut = <<>>
    /\ sttStdin = <<>> /\ sttConnected = TRUE
    /\ sttSent = <<>> /\ sttLost = <<>>
    /\ gateIn = <<>> /\ gateOut = "unasked"
    /\ status = [r \in Roles |-> "Ready"]
    /\ live = [r \in Roles |-> 1]
    /\ crashLog = <<>>
    /\ restartCount = [r \in Roles |-> 0]
    /\ fatal = {}
    /\ raised = {}
    /\ stt_connections = [c \in ClientIds |-> NoConn]
    /\ tts_connections = [c \in ClientIds |-> NoConn]
    /\ handler = [c \in Connections |-> "idle"]
    /\ left = {}
    /\ codecSent = <<>>
    /\ codecWire = <<>>
    /\ ctxCall = <<>>
    /\ context = <<>>
    /\ llmCall = <<>>
    /\ llmResult = <<>>
    /\ ibmStdin = <<>>
    /\ ibmRecognized = <<>>
    /\ ibmMonitored = <<>>
    /\ ibmDone = FALSE
    /\ sttServed = <<>>
    /\ sttWs = <<>>
    /\ sttStdout = <<>>
    /\ stdinEof = [w \in Workers |-> FALSE]
    /\ eofReads = [w \in Workers |-> 0]
    /\ proc = [w \in Workers |-> "running"]
    /\ initCall = <<>>
    /\ initResult = <<>>
    /\ ttsText = <<>>
    /\ ttsHandled = FALSE
    /\ synthCalls = <<>>

InitSessions ==
    /\ state = [p \in Peers |-> "Idle"]
    /\ audioBuffer = [p \in Peers |-> <<>>]
    /\ silence = [p \in Peers |-> 0]
    /\ pendingRequestId = [p \in Peers |-> NoId]
    /\ deadline = [p \in Peers |-> 0]
    /\ issued = [p \in Peers |-> 0]
    /\ turns = 0
    /\ pendingOrder = <<>>
    /\ sink = [p \in Peers |-> <<>>]
    /\ heard = [p \in Peers |-> <<>>]
    /\ lastFlush = [p \in Peers |-> <<>>]
    /\ openReqs = {}
    /\ expired = {}

Init ==
    /\ InitSessions
    /\ InitWorkers
    /\ vectorstore = LoadedStore
    /\ peerName \in [Peers -> DisplayNames]

Next ==
    \/ \E p \in Peers, f \in Frames \cup {EmptyFrame} : PushFrame(p, f)
    \/ \E p \in Peers : TurnEnd(p)
    \/ \E p \in Peers, t \in Transcripts : OnTranscript(p, t)
    \/ RagStep
    \/ OnRagReply
    \/ TtsStep
    \/ OnTtsAudio
    \/ \E p \in Peers : Timeout(p)
    \/ Tick

Spec == Init /\ [][Next]_vars

SttInit ==
    /\ InitSessions
    /\ InitWorkers
    /\ vectorstore = LoadedStore
    /\ peerName = [p \in Peers |-> NoName]

SttNext == SttWrite \/ SttLoop \/ SttOnClose

SttSpec == SttInit /\ [][SttNext]_vars

GateNext == GateCheck

\* The pipeline with worker crashes and restarts, transcription failures and
\* peers leaving.
FaultNext ==
    \/ Next
    \/ \E r \in Roles : Crash(r)
    \/ \E r \in Roles : EnsureRunning(r)
    \/ \E r \in Roles : Started(r)
    \/ \E p \in Peers : OnSttError(p)
    \/ \E p \in Peers : PeerLeave(p)

FaultSpec == SttInit /\ [][FaultNext]_vars

\* The same pipeline with the orchestrator's own steps taken whenever they
\* stay possible: its timers run, a turn that has ended is flushed and a
\* deadline that has passed is served.  Nothing is assumed of the workers.
Fairness ==
    /\ WF_vars(Tick)
    /\ \A p \in Peers : WF_vars(TurnEnd(p)) /\ WF_vars(Timeout(p))

LiveSpec == SttInit /\ [][FaultNext]_vars /\ Fairness

\* The supervisor's restart policy on its own: workers degrade, are restarted
\* or given up, report ready, and callers ask for them with ensureRunning.
\* The supervisor's own steps are taken whenever they stay possible.
RetryNext ==
    \/ \E r \in Roles : Degrade(r)
    \/ \E r \in Roles : Restart(r)
    \/ \E r \in Roles : GiveUp(r)
    \/ \E r \in Roles : Started(r)
    \/ \E r \in Roles : EnsureRunning(r)

RetryFairness == \A r \in Roles : WF_vars(Restart(r)) /\ WF_vars(GiveUp(r))

RetrySpec == SttInit /\ [][RetryNext]_vars /\ RetryFairness

\* RAGService with or without a vectorstore, asked for the context of
\* queries.
ContextInit ==
    /\ InitSessions
    /\ InitWorkers
    /\ vectorstore \in Stores
    /\ peerName = [p \in Peers |-> NoName]

ContextNext == GetContextForQuery

ContextSpec == ContextInit /\ [][ContextNext]_vars

\* The IBM STT worker with audio arriving on its stdin.
IbmNext == IbmWrite \/ IbmSourceRead \/ IbmMonitorRead \/ IbmOnClose

IbmSpec == SttInit /\ [][IbmNext]_vars

\* The local AI server transcribing and the local STT client relaying.
RelayNext == ServerTranscribe \/ ClientOnMessage

RelaySpec == SttInit /\ [][RelayNext]_vars

\* The worker processes with their stdin being closed.
EofNext ==
    \/ \E w \in Workers : StdinClose(w)
    \/ RagReadlineEof
    \/ TtsInputEof
    \/ IbmLoopEof
    \/ IbmOnClose
    \/ IbmLoopDone
    \/ LocalReadEof

EofSpec == SttInit /\ [][EofNext]_vars

\* The RAG worker being started against the document API.
StartNext == RagStart

StartSpec == SttInit /\ [][StartNext]_vars

\* The TTS worker given one line of text.
CleanNext == TtsLineGrows \/ TtsMainInput

CleanSpec == SttInit /\ [][CleanNext]_vars

\* RAGService asked to query the LLM server.
OllamaNext == QueryOllamaCall

OllamaSpec == SttInit /\ [][OllamaNext]_vars

\* The TTS worker's stdout, read by the orchestrator's codec.
CodecNext == TtsWrite

CodecSpec == SttInit /\ [][CodecNext]_vars

\* The pipeline with peers leaving and joining again.
LeaveNext ==
    \/ Next
    \/ \E p \in Peers : PeerLeave(p)
    \/ \E p \in Peers : PeerJoin(p)

LeaveSpec == SttInit /\ [][LeaveNext]_vars

\* The local AI server with the connections of the peers of one activity.
ServerNext ==
    \/ \E c \in Connections : WebsocketAccept(c)
    \/ \E c \in Connections : WebsocketFail(c)

ServerSpec == SttInit /\ [][ServerNext]_vars

\* The input side of the agent: audio events with frames that can be told
\* apart, invalid events, turn ends, transcripts and the timers.
InputFrames == {<<"a">>, <<"b">>}

InputNext ==
    \/ \E p \in Peers, f \in InputFrames \cup {EmptyFrame} : PushFrame(p, f)
    \/ \E p \in Peers : OnAudioInvalid(p)
    \/ \E p \in Peers : TurnEnd(p)
    \/ \E p \in Peers, t \in Transcripts : OnTranscript(p, t)
    \/ OnSttUnparsable
    \/ \E p \in Peers : Timeout(p)
    \/ Tick

InputSpec == SttInit /\ [][InputNext]_vars

GateSpec == SttInit /\ [][GateNext]_vars

(***************************************************************************)
(* Properties.                                                             *)
(***************************************************************************)
\* C1: every worker result that reaches a peer's sink answers a request that
\* was issued for that peer; no peer receives the result of another peer's
\* request, whatever the interleaving of the requests in flight.
C1_RoutedToOriginator ==
    \A p \in Peers : \A i \in 1..Len(sink[p]) :
        sink[p][i].kind \in {"text", "audio"} => PeerOf(sink[p][i].req) = p

\* C2: each peer has at most one outstanding request, the one its
\* pendingRequestId names; frames buffered while a request is pending do not
\* dispatch a second one.
C2_OneOutstanding ==
    \A p \in Peers :
        {id \in openReqs : PeerOf(id) = p} =
            IF pendingRequestId[p] = NoId THEN {} ELSE {pendingRequestId[p]}

C2_Witness ==
    /\ state["p1"] = "AwaitingAnswer"
    /\ audioBuffer["p1"] # <<>>
    /\ openReqs = {pendingRequestId["p1"]}

\* C3: each step in which the RAG+LLM worker reads a generation request (a
\* JSON message with its content) appends exactly one line to its output, an
\* answer or an apology for that request; and its output grows in no other
\* step.
C3_ExactlyOneReply ==
    [][ /\ (ragIn # <<>> /\ ragIn' = Tail(ragIn)
            /\ Head(ragIn).kind = "json" /\ Head(ragIn).hasContent)
           => /\ Len(ragOut') = Len(ragOut) + 1
              /\ ragOut'[Len(ragOut')].req = Head(ragIn).id
              /\ ragOut'[Len(ragOut')].kind \in {"answer", "apology"}
              /\ \A i \in 1..Len(ragOut) : ragOut'[i] = ragOut[i]
        /\ Len(ragOut') > Len(ragOut) => (ragIn # <<>> /\ ragIn' = Tail(ragIn))
      ]_vars

C3_Witness ==
    /\ Len(ragOut) = 1
    /\ ragOut[1].kind = "apology"
    /\ ragOut[1].req = IdOf("p1", 2)
    /\ ragIn = <<>>

\* C4: a reply of a worker for a request whose deadline has expired is never
\* delivered to a peer's sink, neither as the result of a later request of the
\* same peer nor to another peer.
C4_LateReplyDropped ==
    \A p \in Peers : \A i \in 1..Len(sink[p]) :
        sink[p][i].kind \in {"text", "audio"} => sink[p][i].req \notin expired

\* The result at the head of a worker's output correlates with no pending
\* request.
UnknownGen == ragOut # <<>> /\ GenCandidates(Head(ragOut)) = {}
UnknownSynth == ttsOut # <<>> /\ SynthCandidates = {}

ContainsWakePhrase(t) ==
    \E w \in WakePhrases : \E i \in 1..Len(t) :
        /\ i + Len(w) - 1 <= Len(t)
        /\ \A k \in 1..Len(w) : LowerChar(t[i + k - 1]) = w[k]
        /\ i > 1 => ~IsWordChar(t[i - 1])
        /\ i + Len(w) - 1 < Len(t) => ~IsWordChar(t[i + Len(w)])

\* C6: the gate answers true exactly for the transcripts that contain a wake
\* phrase as whole words, case-insensitively: each wake phrase is accepted,
\* "hey agentive" is rejected, "hello world" and "random" are rejected, empty
\* and whitespace-only transcripts are rejected.
C6_GateWholeWord ==
    gateOut # "unasked" =>
        /\ gateOut = "addressed" <=> ContainsWakePhrase(gateIn)
        /\ gateIn \in WakePhrases \cup {Ex_HeyAgentTime} => gateOut = "addressed"
        /\ gateIn \in {Ex_HeyAgentive, Ex_HelloWorld, Ex_Random} => gateOut = "ignored"
        /\ IsBlank(gateIn) => gateOut = "ignored"

C6_Witness == gateIn = Ex_HeyAgentive /\ gateOut = "ignored"

\* C7: a peer has a generation or synthesis request pending only for a turn
\* whose transcript was addressed; the step that brings a transcript that is
\* not addressed takes the peer from AwaitingTranscript to Idle and sends
\* nothing to the workers.
C7_NotAddressedNoRequest ==
    /\ [](\A p \in Peers : state[p] \in Pending => IsAddressed(heard[p]))
    /\ [][ \A p \in Peers :
             (/\ state[p] = "AwaitingTranscript"
              /\ state'[p] # "AwaitingTranscript"
              /\ ~IsAddressed(heard'[p]))
             => /\ state'[p] = "Idle"
                /\ pendingRequestId'[p] = NoId
                /\ UNCHANGED <<ragIn, ttsIn>>
                /\ {id \in openReqs' : PeerOf(id) = p} = {}
         ]_vars

C7_Witness ==
    /\ state["p1"] = "Idle"
    /\ heard["p1"] = Str_weather
    /\ lastFlush["p1"] # <<>>
    /\ ragIn = <<>> /\ ragOut = <<>>

\* The audio blocks delivered to p's sink since its turn began.
AudioOf(p) == SelectSeq(sink[p], LAMBDA e : e.kind = "audio")

\* C8: in a turn the peer's audio sink receives at most one audio block, that
\* block is the audio synthesized for the turn's own synthesis request, and
\* the peer is Idle once it is delivered.
C8_AudioOnceThenIdle ==
    \A p \in Peers :
        /\ Len(AudioOf(p)) <= 1
        /\ \A i \in 1..Len(AudioOf(p)) :
              /\ AudioOf(p)[i].req = AudioOf(p)[i].for
              /\ state[p] = "Idle"

\* C9, as written: a turn is flushed only after a silence of the whole window.
C9_FlushOnlyAfterSilence ==
    \A p \in Peers : \A i \in 1..Len(lastFlush[p]) :
        lastFlush[p][i].silence >= SilenceWindow

\* C9, amended: a turn is flushed only after a silence of the whole window,
\* or when the buffered frames exceed the maximum turn duration.
C9_FlushAfterSilenceOrCap ==
    \A p \in Peers : \A i \in 1..Len(lastFlush[p]) :
        \/ lastFlush[p][i].silence >= SilenceWindow
        \/ lastFlush[p][i].frames > MaxTurnFrames

C9_Witness ==
    /\ lastFlush["p1"] # <<>>
    /\ lastFlush["p1"][1].silence = SilenceWindow
    /\ lastFlush["p1"][1].frames <= MaxTurnFrames

\* C10: no audio chunk handed to the STT client is dropped: every chunk read
\* from its stdin is forwarded to the STT server.
C10_NoChunkDropped == sttLost = <<>>

\* C11: the step in which a worker dies resolves every request in flight to
\* it as an error: the waiting peer gets the fallback for that request, its
\* pending state is cleared and it is Idle; nothing stays pending on the dead
\* process.  After the restart the worker serves requests again.
C11_CrashResolvesInFlight ==
    [][ \A r \in Roles :
          (status[r] = "Ready" /\ status'[r] = "Terminated")
          => \A p \in Peers :
                state[p] = WaitsFor(r)
                => /\ state'[p] = "Idle"
                   /\ pendingRequestId'[p] = NoId
                   /\ pendingRequestId[p] \notin openReqs'
                   /\ Len(sink'[p]) = Len(sink[p]) + 1
                   /\ sink'[p][Len(sink'[p])].kind = "fallback"
                   /\ sink'[p][Len(sink'[p])].req = pendingRequestId[p]
      ]_vars

\* The tts worker died with p1's first synthesis request in flight, was
\* restarted, and p1's next turn got its own audio.
C11_Witness ==
    /\ crashLog = <<[role |-> "tts", failed |-> {IdOf("p1", 3)}]>>
    /\ status["tts"] = "Ready"
    /\ \E i \in 1..Len(sink["p1"]) :
         /\ sink["p1"][i].kind = "audio"
         /\ sink["p1"][i].req = IdOf("p1", 6)
         /\ sink["p1"][i].for = IdOf("p1", 6)

Awaiting == {"AwaitingTranscript", "AwaitingAnswer", "AwaitingSpeech"}

\* C12: a step that takes a peer from a waiting state back to Idle either
\* discards a turn that was not addressed, or delivers the turn's audio, or
\* is a terminal failure (transcription, generation or synthesis failure,
\* unavailable worker, timeout); in the last case the fallback notification
\* for the failed request is appended to the peer's sink.
C12_FailureGetsFallback ==
    [][ \A p \in Peers :
          (state[p] \in Awaiting /\ state'[p] = "Idle")
          => /\ pendingRequestId'[p] = NoId
             /\ \/ /\ state[p] = "AwaitingTranscript"
                   /\ heard'[p] # heard[p]
                   /\ ~IsAddressed(heard'[p])
                \/ /\ state[p] = "AwaitingSpeech"
                   /\ Len(sink'[p]) = Len(sink[p]) + 1
                   /\ sink'[p][Len(sink'[p])].kind = "audio"
                \/ /\ Len(sink'[p]) = Len(sink[p]) + 1
                   /\ sink'[p][Len(sink'[p])].kind = "fallback"
                   /\ sink'[p][Len(sink'[p])].req = pendingRequestId[p]
      ]_vars

\* p1's synthesis request timed out after the answer text was delivered, and
\* p2's turn failed in transcription: both are Idle with the fallback last.
C12_Witness ==
    /\ state["p1"] = "Idle" /\ state["p2"] = "Idle"
    /\ Len(sink["p1"]) = 2
    /\ sink["p1"][1].kind = "text"
    /\ sink["p1"][2].kind = "fallback" /\ sink["p1"][2].why = "timeout"
    /\ Len(sink["p2"]) = 1
    /\ sink["p2"][1].kind = "fallback" /\ sink["p2"][1].why = "transcription"

\* C13: the handler of a line that cannot be parsed raises no error to its
\* caller.
C13_UnparsableLineNotRaised == "stt_data" \notin raised

\* C14: the handler of a malformed audio frame raises no error to its caller.
C14_MalformedFrameNotRaised == "audio" \notin raised

C17_FailureIsolated ==
    [][ \A c \in Connections :
          (handler[c] = "open" /\ handler'[c] # "open")
          => \A cid \in ClientIds :
                /\ stt_connections[cid] \notin {c, NoConn}
                      => stt_connections'[cid] = stt_connections[cid]
                /\ tts_connections[cid] \notin {c, NoConn}
                      => tts_connections'[cid] = tts_connections[cid]
      ]_vars

C19_FlushIsWhatWasPushed ==
    [][ \A p \in Peers :
          /\ audioBuffer'[p] # audioBuffer[p]
             => /\ \A q \in Peers \ {p} : audioBuffer'[q] = audioBuffer[q]
                /\ \/ \E f \in InputFrames :
                        audioBuffer'[p] = Append(audioBuffer[p], f)
                   \/ /\ state[p] = "Buffering"
                      /\ state'[p] = "AwaitingTranscript"
          /\ (state[p] = "Buffering" /\ state'[p] = "AwaitingTranscript")
             => /\ audioBuffer'[p] = <<>>
                /\ Len(lastFlush'[p]) = 1
                /\ lastFlush'[p][1].payload = audioBuffer[p]
                /\ audioBuffer[p] # <<>>
      ]_vars

C19_Witness ==
    /\ state["p1"] = "AwaitingTranscript"
    /\ audioBuffer["p1"] = <<>>
    /\ lastFlush["p1"] # <<>>
    /\ lastFlush["p1"][1].payload = << <<"a">>, <<"b">> >>
    /\ audioBuffer["p2"] = << <<"b">> >>

\* The changes of state listed in 4.6.
ListedChanges ==
    {<<"Idle", "Buffering">>,
     <<"Buffering", "AwaitingTranscript">>,
     <<"AwaitingTranscript", "Idle">>,
     <<"AwaitingTranscript", "AwaitingAnswer">>,
     <<"AwaitingAnswer", "AwaitingSpeech">>,
     <<"AwaitingAnswer", "Idle">>,
     <<"AwaitingSpeech", "Idle">>}
    \cup {<<st, "Terminated">> : st \in {"Idle", "Buffering"} \cup Awaiting}

DeliveredTo(p) == SelectSeq(sink[p], LAMBDA e : e.kind \in {"text", "audio"})

\* The requests of a worker's pipe, oldest first: those it has answered and
\* whose replies wait on its output, then those waiting on its input.
RagPipe == [i \in 1..Len(ragOut) |-> ragOut[i].req]
               \o [i \in 1..Len(ragIn) |-> ragIn[i].id]
TtsPipe == [i \in 1..Len(ttsOut) |-> ttsOut[i].req]
               \o [i \in 1..Len(ttsIn) |-> ttsIn[i].id]

\* The requests of one peer stand in s in the order they were issued.
InIssueOrder(s) ==
    \A i \in 1..Len(s) : \A j \in (i + 1)..Len(s) :
        PeerOf(s[i]) = PeerOf(s[j]) => s[i][2] < s[j][2]

\* The replies of each worker stand on its output in the order in which it
\* read the requests.
WorkersReplyInOrder == InIssueOrder(RagPipe) /\ InIssueOrder(TtsPipe)

\* C21: the results delivered to a peer's sink answer that peer's requests in
\* the order in which the requests were issued; and the replies of a worker
\* stand on its output in the order in which it read the requests.
C21_DeliveredInIssueOrder ==
    /\ \A p \in Peers :
          InIssueOrder([i \in 1..Len(DeliveredTo(p)) |-> DeliveredTo(p)[i].req])
    /\ WorkersReplyInOrder

\* The step takes from a worker's output the result of a request that was
\* pending when its peer left.
TakesResultOfLeaver ==
    \/ ragOut # <<>> /\ ragOut' = Tail(ragOut) /\ Head(ragOut).req \in left
    \/ ttsOut # <<>> /\ ttsOut' = Tail(ttsOut) /\ Head(ttsOut).req \in left

\* C22: the step in which a peer leaves destroys its session, whatever its
\* state: its buffer and its pending request are gone; and a step that takes
\* the result of a request that was pending when its peer left delivers
\* nothing to any sink and changes no peer's state, also when the peer has
\* joined again.
C22_LeaverResultDiscarded ==
    [][ /\ \A p \in Peers :
             (state[p] # "Terminated" /\ state'[p] = "Terminated")
             => /\ audioBuffer'[p] = <<>>
                /\ pendingRequestId'[p] = NoId
                /\ {id \in openReqs' : PeerOf(id) = p} = {}
        /\ TakesResultOfLeaver => UNCHANGED <<sink, state>>
      ]_vars

CodecRoundTrip == CodecDecode(CodecEncodeAll(codecSent)) = codecSent

\* C24: reading the byte stream a worker wrote returns exactly the text lines
\* and audio payloads it wrote, in order: no audio payload is read as a text
\* line and no text line as audio, also when the audio contains newline
\* bytes.
C24_StreamDecodesToWhatWasWritten == CodecDecode(codecWire) = codecSent

\* On a worker's input the pending request of one peer waits behind the
\* pending request of another peer, which the worker has not answered yet.
WaitsBehind(p, q, in) ==
    /\ p # q
    /\ in # <<>>
    /\ pendingRequestId[q] # NoId /\ Head(in).id = pendingRequestId[q]
    /\ pendingRequestId[p] # NoId
    /\ \E i \in 2..Len(in) : in[i].id = pendingRequestId[p]

\* While the RAG+LLM worker does not answer the request of q at the head of
\* its input and has nothing on its output, p, whose request waits behind
\* it, gets no answer: p stays in AwaitingAnswer or falls back to Idle.
BlockedWhileStalled ==
    [][ \A p \in Peers, q \in Peers :
          (WaitsBehind(p, q, ragIn) /\ ragOut = <<>> /\ ragIn' = ragIn)
          => state'[p] \in {"AwaitingAnswer", "Idle"}
      ]_vars

\* C25: no peer's request waits for another peer's request: on no worker's
\* input does the pending request of one peer stand behind the unanswered
\* pending request of another, where it could only be served once that one
\* has been.
C25_PeersDoNotBlock ==
    \A p \in Peers, q \in Peers :
        ~WaitsBehind(p, q, ragIn) /\ ~WaitsBehind(p, q, ttsIn)

\* C26: each step in which the TTS worker reads a text line that is not blank
\* appends exactly one reply for that line to its output, the synthesized
\* audio, the fallback audio or an error event; a step in which it reads a
\* blank line appends nothing.
C26_OneReplyPerLine ==
    [][ (ttsIn # <<>> /\ ttsIn' = Tail(ttsIn))
        => IF Head(ttsIn).blank
           THEN ttsOut' = ttsOut
           ELSE /\ Len(ttsOut') = Len(ttsOut) + 1
                /\ ttsOut'[Len(ttsOut')].req = Head(ttsIn).id
                /\ ttsOut'[Len(ttsOut')].what \in {"speech", "fallback", "error"}
                /\ \A i \in 1..Len(ttsOut) : ttsOut'[i] = ttsOut[i]
      ]_vars

\* Where the i-th of the documents starts in their newline-joined text.
RECURSIVE StartOf(_, _)
StartOf(docs, i) ==
    IF i = 1 THEN 1 ELSE StartOf(docs, i - 1) + Len(docs[i - 1]) + 1

\* c is the contents of docs in their order, one newline between each two.
IsJoinedByNewlines(c, docs) ==
    IF docs = <<>> THEN c = <<>>
    ELSE /\ Len(c) = StartOf(docs, Len(docs)) + Len(docs[Len(docs)]) - 1
         /\ \A i \in 1..Len(docs) :
               /\ SubSeq(c, StartOf(docs, i), StartOf(docs, i) + Len(docs[i]) - 1)
                      = docs[i]
               /\ i < Len(docs) => c[StartOf(docs, i) + Len(docs[i])] = "\n"

\* C27: a call of get_context_for_query returns the contents of the documents
\* the search retrieved, in retrieval order and joined by newlines; without a
\* vectorstore, or when the search fails, it returns the empty string; and no
\* call changes the vectorstore.
C27_ContextJoined ==
    /\ [](\A i \in 1..Len(ctxCall) :
            IF vectorstore = NoStore \/ ~ctxCall[i].ok
            THEN context = <<>>
            ELSE IsJoinedByNewlines(context, ctxCall[i].docs))
    /\ [][vectorstore' = vectorstore]_vars

\* The search retrieved "b", "a\nb" and "a": the call returned "b\na\nb\na".
C27_Witness ==
    /\ vectorstore = LoadedStore
    /\ ctxCall = <<[ok |-> TRUE, docs |-> << <<"b">>, <<"a", "\n", "b">>, <<"a">> >>]>>
    /\ context = <<"b", "\n", "a", "\n", "b", "\n", "a">>

\* The HTTP call succeeded and the reply is a JSON object with the field
\* 'response'.
ReplyHasResponse(o) ==
    /\ o.net = "response" /\ o.ok
    /\ o.body.kind = "object" /\ o.body.has

\* C28: a call of query_ollama returns the 'response' field of the server's
\* reply when the HTTP call succeeded and the reply has that field; in every
\* other outcome (non-OK status, field missing, body not a JSON object,
\* connection error, timeout) it ends with an error and returns nothing.
C28_ResponseOrError ==
    \A i \in 1..Len(llmCall) :
        IF ReplyHasResponse(llmCall[i].server)
        THEN /\ llmResult[i].kind = "returned"
             /\ llmResult[i].value = <<llmCall[i].server.body.response>>
        ELSE /\ llmResult[i].kind = "raised"
             /\ llmResult[i].value = <<>>

\* The server answered 200 with {'response': 'Test LLM response'}.
C28_Witness ==
    /\ llmCall # <<>>
    /\ llmCall[1].posted = <<"sys", "Context:", "ctx", "Question:", "q1">>
    /\ ReplyHasResponse(llmCall[1].server)
    /\ llmResult = <<Returned("Test LLM response")>>

\* The registry of the endpoint a connection belongs to.
RegistryOf(c) == IF EndpointOf(c) = "stt" THEN stt_connections ELSE tts_connections

\* C29: every connection whose endpoint coroutine is running is the entry
\* its registry holds under its client id, and no endpoint coroutine has
\* ended with an error of its own clean-up; also with two connections under
\* one client id.
C29_RegistryMatchesHandlers ==
    \A c \in Connections :
        /\ handler[c] = "open" => RegistryOf(c)[ClientIdOf(c)] = c
        /\ handler[c] # "keyerror"

\* C30: every chunk read from the worker's stdin has been read by the
\* recognizer's audio source: none was taken by the monitoring loop.
C30_NoChunkTakenByMonitor == ibmMonitored = <<>>

\* What the client has to have written once it handled the texts of s: one
\* '>' line for each text that is not empty.
RECURSIVE RelayedLines(_)
RelayedLines(s) ==
    IF s = <<>> THEN <<>>
    ELSE (IF Head(s) # "" THEN << <<">", Head(s)>> >> ELSE <<>>)
         \o RelayedLines(Tail(s))

\* C31: the client's stdout holds exactly one '>' line for every non-empty
\* transcription the server sent and the client has handled, in order.
C31_TranscriptionRelayed ==
    sttStdout = RelayedLines(SubSeq(sttServed, 1, Len(sttServed) - Len(sttWs)))

\* C32: a worker whose read has found the end of its input has terminated.
C32_ExitsAtEof ==
    \A w \in Workers : eofReads[w] > 0 => proc[w] = "exited"

\* C33: once the local STT client's socket has closed or failed, the client
\* is never connected again, and every chunk it reads from its stdin from
\* then on is dropped: nothing more is sent.
C33_DisconnectedForGood ==
    [][ ~sttConnected =>
          /\ ~sttConnected'
          /\ sttSent' = sttSent
          /\ Len(sttStdin') < Len(sttStdin) =>
                /\ sttStdin' = Tail(sttStdin)
                /\ sttLost' = Append(sttLost, Head(sttStdin)) ]_vars

\* The socket closed after the first chunk was sent, and the two chunks read
\* after that were dropped.
C33_Witness ==
    /\ ~sttConnected
    /\ sttSent = <<1>>
    /\ sttLost = <<2, 3>>

\* The texts of the listed documents that did load, in the order listed.
RECURSIVE TextsThatLoaded(_)
TextsThatLoaded(docs) ==
    IF docs = <<>> THEN <<>>
    ELSE IF Head(docs) = LoadFails THEN TextsThatLoaded(Tail(docs))
    ELSE <<Head(docs)>> \o TextsThatLoaded(Tail(docs))

ListingFailed(listing) == listing.net # "response" \/ listing.status # 200

\* C34: a start of the RAG service ends in exactly one of: serving with a
\* vectorstore built from the documents that loaded; serving without a
\* vectorstore, every query getting the empty context; exit with status 1.
\* It exits when the listing request fails, it serves without a vectorstore
\* when the list is empty or no document loads, and a document that fails
\* to load is left out without failing the start.
C34_InitOutcomes ==
    initResult # <<>> =>
        LET listing == initCall[1].listing
            buildOk == initCall[1].buildOk
            r == initResult[1]
            withStore == r.kind = "serving" /\ r.store = LoadedStore
            general == r.kind = "serving" /\ r.store = NoStore
            exited == r.kind = "exit" /\ r.code = 1
            loaded == TextsThatLoaded(listing.docs)
        IN /\ withStore \/ general \/ exited
           /\ ~(withStore /\ general) /\ ~(withStore /\ exited)
           /\ ~(general /\ exited)
           /\ ListingFailed(listing) => exited
           /\ ~ListingFailed(listing) /\ loaded = <<>> => general
           /\ general =>
                 \A docs \in DocLists(1) : ContextFor(r.store, TRUE, docs) = <<>>
           /\ withStore => r.texts = loaded /\ loaded # <<>>
           /\ ~ListingFailed(listing) /\ loaded # <<>> /\ buildOk => withStore
           /\ exited => ListingFailed(listing) \/ ~buildOk

\* The first listed document failed to load and the second loaded: the
\* service is serving with a store built from the second alone.
C34_Witness ==
    /\ initResult # <<>>
    /\ initCall[1].listing.docs = <<LoadFails, "alpha">>
    /\ initResult[1].kind = "serving"
    /\ initResult[1].texts = <<"alpha">>

\* The text holds one of the metadata markers.
HasMarker(s) == \E i \in 1..Len(Markers) : Contains(s, Markers[i])

\* C35: the synthesizer is never called with an empty or blank text nor with
\* a text that holds a metadata marker; it is not called at all for a blank
\* line; and for a line whose text is empty after the cleaning the call is
\* made with the default sentence.
C35_SynthesizerGetsCleanText ==
    ttsHandled =>
        /\ \A i \in 1..Len(synthCalls) :
              /\ ~IsBlank(synthCalls[i])
              /\ ~HasMarker(synthCalls[i])
        /\ IsBlank(ttsText) => synthCalls = <<>>
        /\ ~IsBlank(ttsText) /\ CleanText(ttsText) = <<>> =>
              synthCalls[1] \in {DefaultText, FallbackText}
        /\ ~IsBlank(ttsText) =>
              /\ synthCalls # <<>>
              /\ synthCalls[1] \in {DefaultText, FallbackText}
                    \/ /\ ~IsBlank(synthCalls[1])
                       /\ \E i \in 1..Len(ttsText) :
                            \E j \in i..Len(ttsText) :
                              synthCalls[1] = SubSeq(ttsText, i, j)

\* The line "Agent ->:: hi->" was handled: the prefix and what follows the
\* marker are gone and the synthesizer was called with "hi".
C35_Witness ==
    /\ ttsHandled
    /\ ttsText = <<"Agent", " ", "->", "::", "hi">>
    /\ synthCalls = << <<"hi">> >>

====
